---- MODULE Spec2Model ----
(***************************************************************************)
(* GridTone: colour extraction (colorUtils.js), composite export           *)
(* (exportUtils.js and the earlier exportGrid kept in App.jsx), the        *)
(* components that show an item's colours, batch import, the service       *)
(* worker, the preview modal, the tile store, grid ordering and the        *)
(* overlay toolbar.                                                        *)
(* Each component has its own specification; the others stay idle in it.   *)
(*                                                                         *)
(* Colours are RGB triples <<r, g, b>> with channels in 0..255.            *)
(* JavaScript arrays are 0-based; the sequences here are 1-based, so the   *)
(* centre the code calls j is index j+1 here.                              *)
(***************************************************************************)
EXTENDS Integers, Sequences, FiniteSets, TLC

VARIABLES
  \* ---- dominantColorsFromBitmap (colorUtils.js:18-60) ----
  data,        \* the pixel buffer read by getImageData, one RGB triple per pixel
  k,           \* parameter k
  samples,     \* parameter samples (the sample cap)
  iters,       \* parameter iters
  kpc,         \* position in the function
  step,        \* const step
  pts,         \* const pts
  centers,     \* let centers
  iter,        \* loop variable of the Lloyd iterations
  sums,        \* sums[j] = <<r, g, b, count>> of the round last run
  counts,      \* const counts (final assignment pass)
  ranked,      \* the {c, n} entries left after map/filter/sort/slice, as <<index, n>>
  result,      \* the returned array
  \* ---- exportGrid (exportUtils.js:3-80, and the copy at App.jsx:917-999) ----
  variant,          \* which exportGrid runs: "exportUtils" or "App"
  tilesGiven,       \* whether parameter tiles is passed (FALSE: tiles is undefined)
  tiles,            \* parameter tiles
  columns,          \* parameter columns
  includeOverlays,  \* parameter includeOverlays
  showColor,        \* parameter showColor
  mode,             \* parameter mode: "average" or "dominant"
  overlayMode,      \* parameter overlayMode: "dot", "half" or "full"
  overlayAlpha,     \* parameter overlayAlpha, in percent
  tileSize,         \* parameter tileSize
  spacing,          \* parameter spacing
  pixelRatio,       \* parameter pixelRatio, the fraction <<numerator, denominator>>
  rpc,              \* position in the function
  ri,               \* loop variable i
  logical,          \* <<w, h>>
  canvas,           \* <<canvas.width, canvas.height>>
  ops,              \* the paint operations issued on ctx so far, in order
  blob,             \* what the promise of exportGrid settles to
  \* ---- exportGridObjectURL (exportUtils.js:82-86) ----
  url,              \* what the promise of exportGridObjectURL settles to
  urlsCreated,      \* the number of calls of URL.createObjectURL
  \* ---- the components that show an item's colours ----
  dItem,            \* the item (tile, it): avg and dom as persisted
  dConsumer,        \* which component renders it
  dMode,            \* prop mode
  dShow,            \* prop showColor
  dOverlay,         \* prop overlayMode
  dpc,              \* "start" before the render, "done" after
  dThrew,           \* whether the render threw a TypeError
  dShown,           \* the colours put on screen, in order
  \* ---- averageColorFromBitmap (colorUtils.js:5-12) ----
  aData,            \* data of getImageData, one <<r, g, b, a>> per pixel
  apc,              \* position in the function
  ai,               \* loop variable i, counted in pixels
  aSum,             \* let r, g, b
  aResult,          \* the returned array
  \* ---- drawBitmap (colorUtils.js:97-105) ----
  bmpW,             \* bitmap.width
  bmpH,             \* bitmap.height
  bMax,             \* parameter max
  spc,              \* "start" before the call, "done" after
  scaledW,          \* const scaledW
  scaledH,          \* const scaledH
  \* ---- rgbToHex (colorUtils.js:93-95) and its inverse ----
  hRgb,             \* the triple [r, g, b]
  hpc,              \* "start", "hex" after rgbToHex, "done" after the way back
  hHex,             \* the string returned by rgbToHex, one character per entry
  hBack,            \* the triple read back from hHex
  \* ---- onFiles (App.jsx:154-187), importFiles (Modal.jsx:87-129) ----
  iVariant,         \* which importer runs: "onFiles" or "importFiles"
  iFiles,           \* parameter files
  iList,            \* const list
  ipc,              \* position in the function
  iIndex,           \* the number of files of list the loop is done with
  iOpen,            \* the files whose ImageBitmap is created and not closed
  iAppended,        \* const appended
  iCur,             \* const avg, dom, img of the file in hand
  iFailed,          \* let failed
  importing,        \* state importing
  items,            \* state items (the grid)
  \* ---- service worker (Modal.jsx:215-324) ----
  swCaches,         \* the names of the caches of CacheStorage
  swpc,             \* "start", "installed", "deleting" (activate at its deletes), "active"
  swNames,          \* const names of the activate handler
  swDoomed,         \* the names whose caches.delete has not settled
  fReq,             \* the request of the fetch events
  fCached,          \* whether the caches hold a response for the request
  fNet,             \* how fetch(request) settles: "200", "404" or "fails"
  fpc,              \* "idle", "network" while fetch(request) is pending, "done"
  fAnswer,          \* what the page gets for the request
  fPut,             \* the statuses of the responses put into the asset cache
  \* ---- two calls of onFiles / importFiles in flight (App.jsx:189-190) ----
  oVariant,         \* which importer: "onFiles" or "importFiles"
  oFiles,           \* per call: parameter files, the kind of each file
  opc,              \* per call: "start", "loop", "done"
  oIndex,           \* per call: the number of files the loop is done with
  oAppended,        \* per call: const appended
  oFailed,          \* per call: let failed
  oImporting,       \* state importing
  oItems,           \* state items
  \* ---- export preview (App.jsx:209-235) ----
  pvItems,          \* items.length
  previewUrl,       \* state previewUrl: NoUrl or the number of an object URL
  previewOpen,      \* state previewOpen
  pvPending,        \* the calls of openPreview waiting for exportGridObjectURL
  pvLive,           \* the object URLs created and not revoked
  pvMade,           \* how many object URLs were created
  pvClicks,         \* how many times a preview was asked for
  pvClosed,         \* closePreview ran and no preview was asked for since
  \* ---- IndexedDB persistence (unnamed/part_004) ----
  dbTiles,          \* object store tiles: the records { id, avg, dom, blob }
  dbOrder,          \* object store meta, key order
  tpc,              \* "start", "loaded", "saved", "done"
  allTiles,         \* const allTiles of the first loadTiles
  tLoaded,          \* what the first loadTiles returned
  tReloaded,        \* what loadTiles returned after saveTiles
  \* ---- the grid order (App.jsx:184-204, 265-287, 388; components/Grid.jsx:190-205) ----
  gVariant,         \* whose handleDragEnd: "App" (App.jsx) or "Grid" (components/Grid.jsx)
  gItems,           \* state items, each item by its id
  gMade,            \* how many ids crypto.randomUUID() has given out
  gActive,          \* event.active.id of the drag in progress, or NoId
  gSample,          \* loadSampleGrid is building its tiles
  gOp,              \* the handler that ran last
  gArg,             \* its argument: over.id of a drag end, the id of a remove
  \* ---- toolbar and viewer controls (unnamed/part_000, ImageViewerModal.jsx, Grid.jsx) ----
  tbOverlayMode,    \* state overlayMode, a JavaScript value
  tbShow,           \* state showColor
  tbMode,           \* state mode
  tbAlphaIdx,       \* state overlayAlphaIdx, a JavaScript value
  tbSelect,         \* the control used last
  tbPicked,         \* the overlay style picked last: "DOT", "HALF", "FULL", or "none"
  tbRendered        \* what TileOverlay draws: "nothing", "dot", "half" or "full"

kmVars == <<data, k, samples, iters, kpc, step, pts, centers, iter, sums, counts,
            ranked, result>>

rdVars == <<variant, tilesGiven, tiles, columns, includeOverlays, showColor, mode, overlayMode,
            overlayAlpha, tileSize, spacing, pixelRatio, rpc, ri, logical, canvas, ops,
            blob, url, urlsCreated>>

dpVars == <<dItem, dConsumer, dMode, dShow, dOverlay, dpc, dThrew, dShown>>

avVars == <<aData, apc, ai, aSum, aResult>>

smVars == <<bmpW, bmpH, bMax, spc, scaledW, scaledH>>

hxVars == <<hRgb, hpc, hHex, hBack>>

imVars == <<iVariant, iFiles, iList, ipc, iIndex, iOpen, iAppended, iCur, iFailed,
            importing, items>>

swVars == <<swCaches, swpc, swNames, swDoomed, fReq, fCached, fNet, fpc, fAnswer, fPut>>

ovVars == <<oVariant, oFiles, opc, oIndex, oAppended, oFailed, oImporting, oItems>>

pvVars == <<pvItems, previewUrl, previewOpen, pvPending, pvLive, pvMade, pvClicks, pvClosed>>

dbVars == <<dbTiles, dbOrder, tpc, allTiles, tLoaded, tReloaded>>

goVars == <<gVariant, gItems, gMade, gActive, gSample, gOp, gArg>>

tbVars == <<tbOverlayMode, tbShow, tbMode, tbAlphaIdx, tbSelect, tbPicked, tbRendered>>

vars == <<kmVars, rdVars, dpVars, avVars, smVars, hxVars, imVars, swVars, ovVars, pvVars,
         dbVars, goVars, tbVars>>

\* What a step of one component leaves alone: the other components.
otherThanKMeans == <<rdVars, dpVars, avVars, smVars, hxVars, imVars, swVars, ovVars,
                     pvVars, dbVars, goVars, tbVars>>
otherThanRender == <<kmVars, dpVars, avVars, smVars, hxVars, imVars, swVars, ovVars,
                     pvVars, dbVars, goVars, tbVars>>
otherThanDisplay == <<kmVars, rdVars, avVars, smVars, hxVars, imVars, swVars, ovVars,
                      pvVars, dbVars, goVars, tbVars>>
otherThanAverage == <<kmVars, rdVars, dpVars, smVars, hxVars, imVars, swVars, ovVars,
                      pvVars, dbVars, goVars, tbVars>>
otherThanSampler == <<kmVars, rdVars, dpVars, avVars, hxVars, imVars, swVars, ovVars,
                      pvVars, dbVars, goVars, tbVars>>
otherThanHex == <<kmVars, rdVars, dpVars, avVars, smVars, imVars, swVars, ovVars, pvVars,
                  dbVars, goVars, tbVars>>
otherThanImport == <<kmVars, rdVars, dpVars, avVars, smVars, hxVars, swVars, ovVars,
                     pvVars, dbVars, goVars, tbVars>>
otherThanWorker == <<kmVars, rdVars, dpVars, avVars, smVars, hxVars, imVars, ovVars,
                     pvVars, dbVars, goVars, tbVars>>
otherThanOverlap == <<kmVars, rdVars, dpVars, avVars, smVars, hxVars, imVars, swVars,
                      pvVars, dbVars, goVars, tbVars>>
otherThanPreview == <<kmVars, rdVars, dpVars, avVars, smVars, hxVars, imVars, swVars,
                      ovVars, dbVars, goVars, tbVars>>
otherThanStore == <<kmVars, rdVars, dpVars, avVars, smVars, hxVars, imVars, swVars,
                    ovVars, pvVars, goVars, tbVars>>
otherThanOrder == <<kmVars, rdVars, dpVars, avVars, smVars, hxVars, imVars, swVars,
                    ovVars, pvVars, dbVars, tbVars>>
otherThanToolbar == <<kmVars, rdVars, dpVars, avVars, smVars, hxVars, imVars, swVars,
                      ovVars, pvVars, dbVars, goVars>>

\* ------------------------------------------------------------------ bounds

MaxPixels == 6
MaxK == 3
MaxSamples == 2
MaxIters == 1
DefaultIters == 8
DefaultSamples == 4000

Red == <<255, 0, 0>>
Blue == <<0, 0, 255>>
Green == <<0, 255, 0>>

Palette == {Red, Blue, Green}

\* Sequences over S of length 0..n.
SeqsUpTo(S, n) == UNION {[1..m -> S] : m \in 0..n}

Max2(a, b) == IF a >= b THEN a ELSE b
Min2(a, b) == IF a <= b THEN a ELSE b

\* Math.round(a / b) for a >= 0, b > 0: floor(a/b + 1/2).
RoundDiv(a, b) == (2 * a + b) \div (2 * b)

\* The state of a component that is not running.
KIdle ==
  /\ data = <<>> /\ k = 1 /\ samples = 1 /\ iters = 0 /\ kpc = "idle" /\ step = 0
  /\ pts = <<>> /\ centers = <<>> /\ iter = 0 /\ sums = <<>> /\ counts = <<>>
  /\ ranked = <<>> /\ result = <<>>

RIdle ==
  /\ variant = "exportUtils" /\ tilesGiven = TRUE /\ tiles = <<>> /\ columns = 1 /\ includeOverlays = FALSE
  /\ showColor = FALSE /\ mode = "average" /\ overlayMode = "dot" /\ overlayAlpha = 0
  /\ tileSize = 1 /\ spacing = 0 /\ pixelRatio = <<1, 1>> /\ rpc = "idle" /\ ri = 0
  /\ logical = <<0, 0>> /\ canvas = <<0, 0>> /\ ops = <<>> /\ blob = "none"
  /\ url = "none" /\ urlsCreated = 0

DIdle ==
  /\ dItem = <<>> /\ dConsumer = "none" /\ dMode = "average" /\ dShow = FALSE
  /\ dOverlay = "dot" /\ dpc = "idle" /\ dThrew = FALSE /\ dShown = <<>>

AIdle == aData = <<>> /\ apc = "idle" /\ ai = 0 /\ aSum = <<0, 0, 0>> /\ aResult = <<>>

SIdle == bmpW = 1 /\ bmpH = 1 /\ bMax = 1 /\ spc = "idle" /\ scaledW = 0 /\ scaledH = 0

HIdle == hRgb = <<0, 0, 0>> /\ hpc = "idle" /\ hHex = <<>> /\ hBack = <<>>

IIdle ==
  /\ iVariant = "onFiles" /\ iFiles = <<>> /\ iList = <<>> /\ ipc = "idle" /\ iIndex = 0
  /\ iOpen = {} /\ iAppended = <<>> /\ iFailed = 0 /\ importing = FALSE /\ items = <<>>
  /\ iCur = [avg |-> FALSE, dom |-> FALSE, img |-> FALSE]

WIdle ==
  /\ swCaches = {} /\ swpc = "idle" /\ swNames = {} /\ swDoomed = {}
  /\ fReq = [method |-> "GET", html |-> FALSE, asset |-> FALSE] /\ fCached = FALSE
  /\ fNet = "fails" /\ fpc = "idle" /\ fAnswer = "none" /\ fPut = {}

OIdle ==
  /\ oVariant = "onFiles" /\ oFiles = <<>> /\ opc = <<>> /\ oIndex = <<>>
  /\ oAppended = <<>> /\ oFailed = <<>> /\ oImporting = FALSE /\ oItems = <<>>

PIdle ==
  /\ pvItems = 0 /\ previewUrl = 0 /\ previewOpen = FALSE /\ pvPending = 0
  /\ pvLive = {} /\ pvMade = 0 /\ pvClicks = 0 /\ pvClosed = FALSE

TIdle ==
  /\ dbTiles = {} /\ dbOrder = <<>> /\ tpc = "idle" /\ allTiles = {}
  /\ tLoaded = <<>> /\ tReloaded = <<>>

GIdle ==
  /\ gVariant = "App" /\ gItems = <<>> /\ gMade = 0 /\ gActive = 0 /\ gSample = FALSE
  /\ gOp = "idle" /\ gArg = 0

VIdle ==
  /\ tbOverlayMode = [type |-> "number", repr |-> "0"] /\ tbShow = FALSE
  /\ tbMode = "average" /\ tbAlphaIdx = [type |-> "number", repr |-> "0"]
  /\ tbSelect = "idle" /\ tbPicked = "none" /\ tbRendered = "nothing"

\* ------------------------------------------------------- colorUtils.js

\* Squared distance of nearest(): dr*dr + dg*dg + db*db.
Dist2(p, c) ==
  (p[1] - c[1]) * (p[1] - c[1]) + (p[2] - c[2]) * (p[2] - c[2])
    + (p[3] - c[3]) * (p[3] - c[3])

\* The loop of nearest(): bd = Infinity is the value -1 here; d < bd is strict,
\* so the first centre at minimum distance wins.
RECURSIVE NearestFrom(_, _, _, _, _)
NearestFrom(cs, p, i, bi, bd) ==
  IF i > Len(cs) THEN bi
  ELSE LET d == Dist2(p, cs[i])
       IN IF bd = -1 \/ d < bd
            THEN NearestFrom(cs, p, i + 1, i, d)
            ELSE NearestFrom(cs, p, i + 1, bi, bd)

\* nearest() with "d <= bd": the last centre at minimum distance wins.
nearestLastWins(cs, p) ==
  CHOOSE j \in 1..Len(cs) :
    /\ \A i \in 1..Len(cs) : Dist2(p, cs[j]) <= Dist2(p, cs[i])
    /\ \A i \in (j + 1)..Len(cs) : Dist2(p, cs[i]) > Dist2(p, cs[j])

nearest(cs, p) == NearestFrom(cs, p, 1, 1, -1)

\* const step = Math.max(1, Math.floor(total / samples))
Stride(total, cap) == Max2(1, total \div cap)

\* for (let i=0; i<total; i+=step) pts.push(data[i])
Subsample(buf, st) ==
  LET total == Len(buf)
      n == (total + st - 1) \div st
  IN [m \in 1..n |-> buf[(m - 1) * st + 1]]

\* pts.slice(0,k)
SeedCenters(ps, kk) == SubSeq(ps, 1, Min2(kk, Len(ps)))

\* One pass "for (const p of pts) { j = nearest(centers, p); sums[j] += ... }":
\* sums has k entries, also when there are fewer than k centres.
RECURSIVE Accumulate(_, _, _, _)
Accumulate(cs, ps, n, acc) ==
  IF n > Len(ps) THEN acc
  ELSE LET p == ps[n]
           j == nearest(cs, p)
           s == acc[j]
       IN Accumulate(cs, ps, n + 1,
            [acc EXCEPT ![j] = <<s[1] + p[1], s[2] + p[2], s[3] + p[3], s[4] + 1>>])

RoundSums(cs, ps, kk) ==
  Accumulate(cs, ps, 1, [j \in 1..kk |-> <<0, 0, 0, 0>>])

\* if (sums[j][3] > 0) centers[j] = rounded mean; otherwise centers[j] is kept.
UpdateCenters(cs, sm) ==
  [j \in 1..Len(cs) |->
     IF sm[j][4] > 0
       THEN <<RoundDiv(sm[j][1], sm[j][4]), RoundDiv(sm[j][2], sm[j][4]),
              RoundDiv(sm[j][3], sm[j][4])>>
       ELSE cs[j]]

\* const counts = Array(k).fill(0); for (const p of pts) counts[nearest(centers, p)]++
FinalCounts(cs, ps, kk) ==
  LET sm == RoundSums(cs, ps, kk) IN [j \in 1..kk |-> sm[j][4]]

\* .sort((a,b) => b.n - a.n): Array.prototype.sort is stable, so entries of equal
\* n keep their order.  An entry is <<index, n>>.
RECURSIVE InsertDesc(_, _)
InsertDesc(sorted, x) ==
  IF sorted = <<>> THEN <<x>>
  ELSE IF Head(sorted)[2] >= x[2]
         THEN <<Head(sorted)>> \o InsertDesc(Tail(sorted), x)
         ELSE <<x>> \o sorted

RECURSIVE SortDesc(_, _)
SortDesc(xs, acc) ==
  IF xs = <<>> THEN acc ELSE SortDesc(Tail(xs), InsertDesc(acc, Head(xs)))

\* centers.map((c,i)=>({c,n:counts[i]})).filter(x=>x.n>0).sort(...).slice(0,k)
RankNoFilter(cs, cnt, kk) ==
  LET all == [j \in 1..Len(cs) |-> <<j, cnt[j]>>]
      srt == SortDesc(all, <<>>)
  IN SubSeq(srt, 1, Min2(kk, Len(srt)))

RankUnsorted(cs, cnt, kk) ==
  LET all == [j \in 1..Len(cs) |-> <<j, cnt[j]>>]
      kept == SelectSeq(all, LAMBDA x : x[2] > 0)
  IN SubSeq(kept, 1, Min2(kk, Len(kept)))

Rank(cs, cnt, kk) ==
  LET all == [j \in 1..Len(cs) |-> <<j, cnt[j]>>]
      kept == SelectSeq(all, LAMBDA x : x[2] > 0)
      srt == SortDesc(kept, <<>>)
  IN SubSeq(srt, 1, Min2(kk, Len(srt)))

\* ---- the function as steps ----

IterChoices == (0..MaxIters) \cup {DefaultIters}
SampleChoices == (1..MaxSamples) \cup {DefaultSamples}

KInit ==
  /\ RIdle /\ DIdle /\ AIdle /\ SIdle /\ HIdle /\ IIdle
  /\ WIdle /\ OIdle /\ PIdle /\ TIdle /\ GIdle /\ VIdle
  /\ data \in SeqsUpTo(Palette, MaxPixels)
  /\ k \in 1..MaxK
  /\ samples \in SampleChoices
  /\ iters \in IterChoices
  /\ kpc = "start"
  /\ step = 0
  /\ pts = <<>>
  /\ centers = <<>>
  /\ iter = 0
  /\ sums = <<>>
  /\ counts = <<>>
  /\ ranked = <<>>
  /\ result = <<>>

\* lines 22-29: sub-sample; "if (!pts.length) return []".
KSample ==
  /\ kpc = "start"
  /\ step' = Stride(Len(data), samples)
  /\ pts' = Subsample(data, step')
  /\ kpc' = IF pts' = <<>> THEN "done" ELSE "sampled"
  /\ UNCHANGED <<data, k, samples, iters, centers, iter, sums, counts, ranked, result,
               otherThanKMeans>>

\* line 32
KSeed ==
  /\ kpc = "sampled"
  /\ centers' = SeedCenters(pts, k)
  /\ kpc' = "iterating"
  /\ UNCHANGED <<data, k, samples, iters, step, pts, iter, sums, counts, ranked, result,
               otherThanKMeans>>

\* lines 35-48, one round of the loop
KIterate ==
  /\ kpc = "iterating"
  /\ iter < iters
  /\ sums' = RoundSums(centers, pts, k)
  /\ centers' = UpdateCenters(centers, sums')
  /\ iter' = iter + 1
  /\ UNCHANGED <<data, k, samples, iters, kpc, step, pts, counts, ranked, result,
               otherThanKMeans>>

\* lines 51-52, the final assignment pass
KCount ==
  /\ kpc = "iterating"
  /\ iter = iters
  /\ counts' = FinalCounts(centers, pts, k)
  /\ kpc' = "counted"
  /\ UNCHANGED <<data, k, samples, iters, step, pts, centers, iter, sums, ranked, result,
               otherThanKMeans>>

\* lines 54-59
KReturn ==
  /\ kpc = "counted"
  /\ ranked' = Rank(centers, counts, k)
  /\ result' = [m \in 1..Len(ranked') |-> centers[ranked'[m][1]]]
  /\ kpc' = "done"
  /\ UNCHANGED <<data, k, samples, iters, step, pts, centers, iter, sums, counts,
               otherThanKMeans>>

KNext == KSample \/ KSeed \/ KIterate \/ KCount \/ KReturn

SpecKMeans == KInit /\ [][KNext]_vars

\* ------------------------------------------------ claims: dominant colours

\* How many pixels of the buffer have colour c.
PixelCount(buf, c) == Cardinality({n \in 1..Len(buf) : buf[n] = c})

ColoursOf(buf) == {buf[n] : n \in 1..Len(buf)}

\* The buffer is made of exactly kk solid colours whose areas differ pairwise.
SolidRegions(buf, kk) ==
  /\ Cardinality(ColoursOf(buf)) = kk
  /\ \A c, d \in ColoursOf(buf) : c # d => PixelCount(buf, c) # PixelCount(buf, d)

\* The sampled points the final centres[j] is nearest to.
Population(j) == Cardinality({n \in 1..Len(pts) : nearest(centers, pts[n]) = j})

\* C1: for a buffer of exactly k solid colours of pairwise different areas (every
\* pixel sampled, the default 8 iterations), the function returns exactly those k
\* colours, the largest area first.
C1_SolidRegionsByArea ==
  (kpc = "done" /\ iters = DefaultIters /\ step = 1 /\ SolidRegions(data, k)) =>
    /\ Len(result) = k
    /\ \A m \in 1..Len(result) : result[m] \in ColoursOf(data)
    /\ \A m \in 1..(Len(result) - 1) :
         PixelCount(data, result[m]) > PixelCount(data, result[m + 1])

\* C2: at most k colours are returned, and every returned entry is a centre that
\* at least one sampled point is nearest to in the final assignment.
C2_AtMostKNonEmpty ==
  kpc = "done" =>
    /\ Len(result) <= k
    /\ \A m \in 1..Len(result) :
         LET j == ranked[m][1]
         IN /\ j \in 1..Len(centers)
            /\ result[m] = centers[j]
            /\ \E n \in 1..Len(pts) : nearest(centers, pts[n]) = j

\* A run that returned something although some centre ended with no point.
C2_Witness ==
  /\ kpc = "done"
  /\ iters = DefaultIters
  /\ result # <<>>
  /\ \E j \in 1..Len(centers) : counts[j] = 0

\* C3: the number of sub-sampled points never exceeds the sample cap.
C3_SamplesWithinCap == kpc # "start" => Len(pts) <= samples

\* C4: the returned colours are in order of non-increasing population, the
\* population of a centre being the number of sampled points nearest to it after
\* the last iteration.
C4_OrderedByFinalPopulation ==
  kpc = "done" =>
    /\ \A m \in 1..Len(result) : result[m] = centers[ranked[m][1]]
    /\ \A m \in 1..(Len(ranked) - 1) :
         Population(ranked[m][1]) >= Population(ranked[m + 1][1])

\* A run whose final order differs from the order of the last round's counts.
C4_Witness ==
  /\ kpc = "done"
  /\ iters >= 1
  /\ \E m \in 1..(Len(ranked) - 1) :
       /\ Population(ranked[m][1]) > Population(ranked[m + 1][1])
       /\ sums[ranked[m][1]][4] < sums[ranked[m + 1][1]][4]

\* ------------------------------------------------------- exportUtils.js
\* Lengths are exact fractions.  A rectangle is [l, t, r, b, den]: the edges
\* l/den, t/den, r/den, b/den in logical pixels.  den = 0 marks "no rectangle".

\* tileSize / 2 (line 62) and hOverlay / 3 (line 64): sixths of a pixel are exact.
U == 6

\* drawSwatches, line 106
pad == 8
circle == 18
gap == 8

\* background = '#0f0f10', border = 'rgba(255,255,255,0.06)'
Background == <<15, 15, 16>>
BorderColor == <<255, 255, 255>>
BorderAlpha == 6
\* drawSwatches: 'rgba(0,0,0,.35)' capsule, 'rgba(0,0,0,.25)' swatch outline
Black == <<0, 0, 0>>
CapsuleAlpha == 35
SwatchStrokeAlpha == 25

\* A missing value (undefined), as the dom of a persisted item may be.  Four
\* entries: neither a colour nor a list of up to three colours.
Missing == <<-1, -1, -1, -1>>

NoRect == [l |-> 0, t |-> 0, r |-> 0, b |-> 0, den |-> 0]

\* The rectangle (x, y, w, h) given in whole pixels.
PxRect(x, y, w, h) ==
  [l |-> x * U, t |-> y * U, r |-> (x + w) * U, b |-> (y + h) * U, den |-> U]

\* The same rectangle with its edges over the denominator den * m.
Scaled(a, m) ==
  [l |-> a.l * m, t |-> a.t * m, r |-> a.r * m, b |-> a.b * m, den |-> a.den * m]

IsEmpty(a) == a.den = 0 \/ a.l >= a.r \/ a.t >= a.b

\* a lies inside b (an empty a lies inside everything).
Within(a, b) ==
  \/ IsEmpty(a)
  \/ /\ b.den # 0
     /\ a.l * b.den >= b.l * a.den /\ a.r * b.den <= b.r * a.den
     /\ a.t * b.den >= b.t * a.den /\ a.b * b.den <= b.b * a.den

Intersect(a, b) ==
  LET x == Scaled(a, b.den)
      y == Scaled(b, a.den)
  IN [l |-> Max2(x.l, y.l), t |-> Max2(x.t, y.t), r |-> Min2(x.r, y.r),
      b |-> Min2(x.b, y.b), den |-> x.den]

\* ctx.rect(...); ctx.clip(): what a paint operation can touch under its clip.
Painted(op) == IF op.clip.den = 0 THEN op.rect ELSE Intersect(op.rect, op.clip)

\* line 19: Math.max(1, columns)
GridCols(c) == Max2(1, c)

\* line 20: Math.ceil(n / cols)
GridRowsFloor(n, cols) == n \div cols

GridRows(n, cols) == (n + cols - 1) \div cols

\* lines 21-22: cols * tileSize + (cols - 1) * spacing
LogicalExtent(cells, ts, sp) == cells * ts + (cells - 1) * sp

\* lines 25-26: Math.round(w * pixelRatio), pixelRatio = pr[1] / pr[2]
BackingExtent(len, pr) == RoundDiv(len * pr[1], pr[2])

\* lines 35-38, i counted from 0
CellRow(i, cols) == i \div cols
CellCol(i, cols) == i % cols
CellXNoSpacing(i, cols, ts, sp) == CellCol(i, cols) * ts

CellX(i, cols, ts, sp) == CellCol(i, cols) * (ts + sp)
CellY(i, cols, ts, sp) == CellRow(i, cols) * (ts + sp)
CellRect(i, cols, ts, sp) == PxRect(CellX(i, cols, ts, sp), CellY(i, cols, ts, sp), ts, ts)

\* drawAspectFillClipped lines 93-97 (drawAspectFill, App.jsx:1009-1013): with
\* S = max(w*ih, h*iw), scale = S / (iw*ih); the rectangle (dx, dy, dw, dh) over
\* the denominator 2*iw*ih.
AspectFillRect(iw, ih, x, y, w, h) ==
  LET D == 2 * iw * ih
      S == Max2(w * ih, h * iw)
      dw == 2 * iw * S
      dh == 2 * ih * S
      dx == x * D + (w * D - dw) \div 2
      dy == y * D + (h * D - dh) \div 2
  IN [l |-> dx, t |-> dy, r |-> dx + dw, b |-> dy + dh, den |-> D]

\* A paint operation: what is drawn (kind), by which part of the loop body, for
\* which tile (0: the background), where, under which clip, in which colour at
\* which alpha (percent).
Op(kind, part, tile, rect, clip, color, alpha) ==
  [kind |-> kind, part |-> part, tile |-> tile, rect |-> rect, clip |-> clip,
   color |-> color, alpha |-> alpha]

\* drawAspectFillClipped (exportUtils.js:88-103) and drawAspectFill
\* (App.jsx:1004-1016), which draws without save/clip/restore.
ImageOps(v, t, idx, x, y, w, h) ==
  IF t.img.w = 0 \/ t.img.h = 0 THEN <<>>
  ELSE <<Op("image", "image", idx, AspectFillRect(t.img.w, t.img.h, x, y, w, h),
            IF v = "exportUtils" THEN PxRect(x, y, w, h) ELSE NoRect,
            t.img.rgb, 100)>>

\* lines 42-46: strokeRect(x + 0.5, y + 0.5, tileSize - 1, tileSize - 1), lineWidth 1:
\* a one-pixel frame whose outer edge is the cell's.
BorderOps(idx, x, y, ts) ==
  <<Op("frame", "border", idx, PxRect(x, y, ts, ts), NoRect, BorderColor, BorderAlpha)>>

\* drawSwatches line 116: const [r, g, b] = colors[i] throws a TypeError when
\* colors[i] is undefined.  The number of swatches drawn before that.
SwatchesDone(colors) ==
  IF \E i \in 1..Len(colors) : colors[i] = Missing
    THEN (CHOOSE i \in 1..Len(colors) :
            /\ colors[i] = Missing
            /\ \A j \in 1..(i - 1) : colors[j] # Missing) - 1
    ELSE Len(colors)

SwatchesThrow(colors) == SwatchesDone(colors) < Len(colors)

\* drawSwatches(ctx, colors, x, y, w, h), lines 105-126.  The capsule and the
\* circles are given by their bounding boxes; each touches all four sides of its
\* box, so it lies inside a tile exactly when the box does.  No clip is set.
SwatchOps(idx, colors, x, y, w, h) ==
  LET n == Len(colors)
      done == SwatchesDone(colors)
      total == n * circle + (n - 1) * gap
      bx == x + pad - 6
      by == y + h - pad - circle - 4
      bw == total + 12
      bh == circle + 8
      capsule == Op("capsule", "overlay", idx, PxRect(bx, by, bw, bh), NoRect,
                    Black, CapsuleAlpha)
      cx(i) == x + pad + i * (circle + gap)
      cy == y + h - pad - circle
      disc(i) == Op("swatch", "overlay", idx, PxRect(cx(i), cy, circle, circle),
                    NoRect, colors[i + 1], 100)
      ring(i) == Op("ring", "overlay", idx,
                    [l |-> cx(i) * U - U \div 2, t |-> cy * U - U \div 2,
                     r |-> (cx(i) + circle) * U + U \div 2,
                     b |-> (cy + circle) * U + U \div 2, den |-> U],
                    NoRect, Black, SwatchStrokeAlpha)
  IN <<capsule>> \o [m \in 1..(2 * done) |->
                      IF m % 2 = 1 THEN disc((m - 1) \div 2) ELSE ring((m - 1) \div 2)]

\* t.dom && t.dom.length, t.dom?.length
HasDom(t) == t.dom # Missing /\ Len(t.dom) > 0

\* rgbaStr, lines 138-141: rgb || [0, 0, 0]
rgbaStr(rgb) == IF rgb = Missing THEN Black ELSE rgb

\* line 50: mode === 'average' ? [t.avg] : (t.dom?.length ? t.dom : [t.avg])
DotColors(t, md) ==
  IF md = "average" THEN <<t.avg>>
  ELSE IF HasDom(t) THEN t.dom ELSE <<t.avg>>

\* lines 61 and 68: dom = t.dom && t.dom.length ? t.dom : [avg, avg, avg];
\* stripe s (from 0) is painted in dom[s] || t.avg.
StripeColorBlack(t, s) ==
  LET dom == IF HasDom(t) THEN t.dom ELSE <<t.avg, t.avg, t.avg>>
  IN IF HasDom(t) /\ s + 1 <= Len(dom) THEN dom[s + 1] ELSE Black

StripeColor(t, s) ==
  LET dom == IF HasDom(t) THEN t.dom ELSE <<t.avg, t.avg, t.avg>>
  IN IF s + 1 <= Len(dom) THEN dom[s + 1] ELSE t.avg

\* lines 53-59 (App.jsx:976-979 without the clip): the average fill.
AverageFillOps(v, t, idx, om, alpha, x, y, ts) ==
  LET clip == IF v = "exportUtils" THEN PxRect(x, y, ts, ts) ELSE NoRect
      half == [l |-> x * U, t |-> y * U + (ts * U) \div 2, r |-> (x + ts) * U,
               b |-> y * U + (ts * U) \div 2 + (ts * U) \div 2, den |-> U]
  IN <<Op("fill", "overlay", idx, IF om = "half" THEN half ELSE PxRect(x, y, ts, ts),
          clip, rgbaStr(t.avg), alpha)>>

\* lines 61-71 (App.jsx:981-989 without the clip): the three stripes.
StripeOpsHalves(v, t, idx, om, alpha, x, y, ts) ==
  LET clip == IF v = "exportUtils" THEN PxRect(x, y, ts, ts) ELSE NoRect
      hOverlay == IF om = "half" THEN (ts * U) \div 2 ELSE ts * U
      y0 == IF om = "half" THEN y * U + (ts * U) \div 2 ELSE y * U
      stripeH == hOverlay \div 2
  IN [m \in 1..3 |->
        Op("stripe", "overlay", idx,
           [l |-> x * U, t |-> y0 + (m - 1) * stripeH, r |-> (x + ts) * U,
            b |-> y0 + (m - 1) * stripeH + stripeH, den |-> U],
           clip, rgbaStr(StripeColor(t, m - 1)), alpha)]

StripeOps(v, t, idx, om, alpha, x, y, ts) ==
  LET clip == IF v = "exportUtils" THEN PxRect(x, y, ts, ts) ELSE NoRect
      hOverlay == IF om = "half" THEN (ts * U) \div 2 ELSE ts * U
      y0 == IF om = "half" THEN y * U + (ts * U) \div 2 ELSE y * U
      stripeH == hOverlay \div 3
  IN [m \in 1..3 |->
        Op("stripe", "overlay", idx,
           [l |-> x * U, t |-> y0 + (m - 1) * stripeH, r |-> (x + ts) * U,
            b |-> y0 + (m - 1) * stripeH + stripeH, den |-> U],
           clip, rgbaStr(StripeColor(t, m - 1)), alpha)]

\* lines 48-74
OverlayOps(v, t, idx, io, show, md, om, alpha, x, y, ts) ==
  IF ~(io /\ show) THEN <<>>
  ELSE IF om = "dot" THEN SwatchOps(idx, DotColors(t, md), x, y, ts, ts)
  ELSE IF md = "average" THEN AverageFillOps(v, t, idx, om, alpha, x, y, ts)
  ELSE StripeOps(v, t, idx, om, alpha, x, y, ts)

\* ---- the inputs ----

MaxTiles == 3
MaxColumns == 2
MaxLayoutTiles == 7
MaxLayoutColumns == 3

Img(w, h, rgb) == [w |-> w, h |-> h, rgb |-> rgb]
Tile(img, avg, dom) == [img |-> img, avg |-> avg, dom |-> dom]

\* Items as import and persistence produce them: a 10:1 image with no dominant
\* colours, then one, two and three dominant colours, an image handle of zero
\* size, and an item whose dom is absent.
Catalogue ==
  << Tile(Img(10, 1, <<200, 120, 40>>), <<10, 20, 30>>, <<>>),
     Tile(Img(2, 3, <<40, 200, 120>>), <<90, 80, 70>>, <<Red>>),
     Tile(Img(4, 4, <<120, 40, 200>>), <<60, 60, 60>>, <<Red, Blue>>),
     Tile(Img(0, 0, <<0, 0, 0>>), <<33, 66, 99>>, <<Red, Blue, Green>>),
     Tile(Img(1, 10, <<250, 250, 250>>), <<128, 128, 128>>, Missing) >>

\* n items, starting at entry off of the catalogue and going round it.
ItemList(n, off) == [m \in 1..n |-> Catalogue[((off + m - 1) % Len(Catalogue)) + 1]]

\* An image handle that is absent (t.img undefined).
NoImage == Img(-1, -1, Black)

\* Items as damaged persisted data gives them: no image handle; no averageColor
\* and no dominant colours; no averageColor and one dominant colour.
Damaged ==
  << Tile(NoImage, <<10, 20, 30>>, <<Red, Blue, Green>>),
     Tile(Img(4, 4, <<120, 40, 200>>), Missing, <<>>),
     Tile(Img(3, 2, <<40, 200, 120>>), Missing, <<Red>>) >>

\* The lists a render is called with: sound items and lists with one damaged
\* item.
RenderLists ==
  {ItemList(n, off) : n \in 0..MaxTiles, off \in 0..(Len(Catalogue) - 1)}
    \cup UNION {{[ItemList(n, 0) EXCEPT ![pos] = Damaged[d]] :
                   pos \in 1..n, d \in 1..Len(Damaged)} : n \in 1..MaxTiles}

\* line 17: !tiles || !tiles.length
NoTiles(given, ts) == ~given \/ Len(ts) = 0

RenderTileSizes == {24, 256}
RenderSpacings == {0, 12}
RenderAlphas == {0, 50}
RenderRatios == {<<1, 1>>, <<3, 2>>}

LayoutTileSizes == {1, 100, 512}
LayoutSpacings == {0, 10, 12}
LayoutRatios == {<<1, 1>>, <<5, 4>>, <<3, 2>>, <<2, 1>>}

RStart ==
  /\ rpc = "start" /\ ri = 0 /\ logical = <<0, 0>> /\ canvas = <<0, 0>>
  /\ ops = <<>> /\ blob = "none" /\ url = "none" /\ urlsCreated = 0

RInit ==
  /\ KIdle /\ DIdle /\ AIdle /\ SIdle /\ HIdle /\ IIdle
  /\ WIdle /\ OIdle /\ PIdle /\ TIdle /\ GIdle /\ VIdle
  /\ variant \in {"exportUtils", "App"}
  /\ \/ tilesGiven = TRUE /\ tiles \in RenderLists
     \/ tilesGiven = FALSE /\ tiles = <<>>
  /\ columns \in 1..MaxColumns
  /\ includeOverlays \in BOOLEAN
  /\ showColor \in BOOLEAN
  /\ mode \in {"average", "dominant"}
  /\ overlayMode \in {"dot", "half", "full"}
  /\ overlayAlpha \in RenderAlphas
  /\ tileSize \in RenderTileSizes
  /\ spacing \in RenderSpacings
  /\ pixelRatio \in RenderRatios
  /\ RStart

\* Layout only: many items and columns, the shipped sizes, clean export.
LInit ==
  /\ KIdle /\ DIdle /\ AIdle /\ SIdle /\ HIdle /\ IIdle
  /\ WIdle /\ OIdle /\ PIdle /\ TIdle /\ GIdle /\ VIdle
  /\ variant \in {"exportUtils", "App"}
  /\ tilesGiven = TRUE
  /\ \E n \in 0..MaxLayoutTiles : tiles = ItemList(n, 1)
  /\ columns \in 0..MaxLayoutColumns
  /\ includeOverlays = FALSE
  /\ showColor = FALSE
  /\ mode = "average"
  /\ overlayMode = "dot"
  /\ overlayAlpha = 50
  /\ tileSize \in LayoutTileSizes
  /\ spacing \in LayoutSpacings
  /\ pixelRatio \in LayoutRatios
  /\ RStart

RParams == <<variant, tilesGiven, tiles, columns, includeOverlays, showColor, mode, overlayMode,
             overlayAlpha, tileSize, spacing, pixelRatio>>

\* lines 17-31: no list or the empty list resolves to null before any canvas is
\* made; otherwise the canvas is sized and the background filled.
RBegin ==
  /\ rpc = "start"
  /\ IF NoTiles(tilesGiven, tiles)
       THEN /\ rpc' = "done"
            /\ blob' = "null"
            /\ UNCHANGED <<logical, canvas, ops>>
       ELSE LET cols == GridCols(columns)
                rows == GridRows(Len(tiles), cols)
                w == LogicalExtent(cols, tileSize, spacing)
                h == LogicalExtent(rows, tileSize, spacing)
            IN /\ logical' = <<w, h>>
               /\ canvas' = <<BackingExtent(w, pixelRatio), BackingExtent(h, pixelRatio)>>
               /\ ops' = <<Op("fill", "background", 0, PxRect(0, 0, w, h), NoRect,
                              Background, 100)>>
               /\ rpc' = "tiles"
               /\ blob' = blob
  /\ ri' = 0
  /\ UNCHANGED <<RParams, url, urlsCreated, otherThanRender>>

\* drawAspectFillClipped line 89 (drawAspectFill, App.jsx:1005): img.naturalWidth
\* of an undefined img throws a TypeError.
ImageThrows(t) == t.img = NoImage

\* lines 48-51: the dot overlay throws in drawSwatches on an undefined colour.
OverlayThrows(t, io, show, md, om) ==
  io /\ show /\ om = "dot" /\ SwatchesThrow(DotColors(t, md))

\* lines 40-74: what one round of the loop paints, up to a throw if there is one.
TileOps(v, t, idx, io, show, md, om, alpha, x, y, ts) ==
  IF ImageThrows(t) THEN <<>>
  ELSE ImageOps(v, t, idx, x, y, ts, ts)
         \o BorderOps(idx, x, y, ts)
         \o OverlayOps(v, t, idx, io, show, md, om, alpha, x, y, ts)

\* lines 33-75, one round of the loop: image, border, overlay of tile i.  An
\* exception leaves the async function: its promise is rejected.
RDrawTile ==
  /\ rpc = "tiles"
  /\ ri < Len(tiles)
  /\ LET t == tiles[ri + 1]
         cols == GridCols(columns)
         x == CellX(ri, cols, tileSize, spacing)
         y == CellY(ri, cols, tileSize, spacing)
     IN /\ ops' = ops \o TileOps(variant, t, ri + 1, includeOverlays, showColor, mode,
                                 overlayMode, overlayAlpha, x, y, tileSize)
        /\ IF ImageThrows(t) \/ OverlayThrows(t, includeOverlays, showColor, mode,
                                              overlayMode)
             THEN rpc' = "done" /\ blob' = "rejected" /\ ri' = ri
             ELSE rpc' = rpc /\ blob' = blob /\ ri' = ri + 1
  /\ UNCHANGED <<RParams, logical, canvas, url, urlsCreated, otherThanRender>>

\* lines 77-79: canvas.toBlob
RFinish ==
  /\ rpc = "tiles"
  /\ ri = Len(tiles)
  /\ rpc' = "done"
  /\ blob' = "jpeg"
  /\ UNCHANGED <<RParams, ri, logical, canvas, ops, url, urlsCreated, otherThanRender>>

\* exportGridObjectURL lines 84-85: if (!blob) return null;
\* return URL.createObjectURL(blob)
ObjectURLAlways(b) == "blob:"

ObjectURL(b) == IF b = "null" THEN "null" ELSE "blob:"

\* exportGridObjectURL, lines 82-86, after exportGrid has settled: a rejection
\* passes through the await.
RObjectURL ==
  /\ rpc = "done"
  /\ url = "none"
  /\ IF blob = "rejected"
       THEN url' = "rejected" /\ urlsCreated' = urlsCreated
       ELSE /\ url' = ObjectURL(blob)
            /\ urlsCreated' = IF ObjectURL(blob) = "null" THEN urlsCreated
                               ELSE urlsCreated + 1
  /\ UNCHANGED <<RParams, rpc, ri, logical, canvas, ops, blob, otherThanRender>>

RNext == RBegin \/ RDrawTile \/ RFinish \/ RObjectURL

SpecRender == RInit /\ [][RNext]_vars

SpecLayout == LInit /\ [][RNext]_vars

\* ------------------------------------------------ the canvas as pixels

\* The logical canvas; the context is scaled by pixelRatio, so every logical
\* point inside it is on the backing canvas.
CanvasRect == PxRect(0, 0, logical[1], logical[2])

\* What an operation changes on the canvas.
PaintedOnCanvas(op) == Intersect(Painted(op), CanvasRect)

\* The point (x/den, y/den).
Centre(a) == [x |-> a.l + a.r, y |-> a.t + a.b, den |-> 2 * a.den]

Holds(a, p) ==
  /\ ~IsEmpty(a)
  /\ a.l * p.den <= p.x * a.den /\ p.x * a.den < a.r * p.den
  /\ a.t * p.den <= p.y * a.den /\ p.y * a.den < a.b * p.den

\* A frame and a ring are one-pixel outlines: they leave their inside alone.
Inset(a) == [l |-> a.l + a.den, t |-> a.t + a.den, r |-> a.r - a.den,
             b |-> a.b - a.den, den |-> a.den]

Covers(op, p) ==
  /\ Holds(PaintedOnCanvas(op), p)
  /\ op.kind \in {"frame", "ring"} => ~Holds(Inset(op.rect), p)

\* Source-over compositing of an opaque destination, per channel.
Blend(dst, src, alpha) ==
  [c \in 1..3 |-> RoundDiv(src[c] * alpha + dst[c] * (100 - alpha), 100)]

RECURSIVE PixelFrom(_, _, _, _)
PixelFrom(seq, p, n, colour) ==
  IF n > Len(seq) THEN colour
  ELSE PixelFrom(seq, p, n + 1,
         IF Covers(seq[n], p) THEN Blend(colour, seq[n].color, seq[n].alpha)
         ELSE colour)

\* The colour of the canvas at p after the operations seq.
PixelAt(seq, p) == PixelFrom(seq, p, 1, Black)

BaseOpsIssued == SelectSeq(ops, LAMBDA o : o.part # "overlay")
StripesOf(idx) == SelectSeq(ops, LAMBDA o : o.kind = "stripe" /\ o.tile = idx)

TileCell(idx) == CellRect(idx - 1, GridCols(columns), tileSize, spacing)

StripedRun ==
  /\ rpc = "done" /\ blob = "jpeg"
  /\ includeOverlays /\ showColor /\ mode = "dominant" /\ overlayMode \in {"half", "full"}

\* ------------------------------------------------ claims: export renderer

\* C5: in dominant mode with half or full overlay, a missing stripe colour is
\* taken from the colours present: stripe 2 from colour 1, stripe 3 from colour 2
\* or else colour 1; averageColor only when there is no dominant colour at all.
C5_StripePaddingChain ==
  StripedRun =>
    \A idx \in 1..Len(tiles) :
      LET t == tiles[idx]
          d == IF HasDom(t) THEN t.dom ELSE <<>>
          c1 == IF Len(d) >= 1 THEN d[1] ELSE t.avg
          c2 == IF Len(d) >= 2 THEN d[2] ELSE c1
          c3 == IF Len(d) >= 3 THEN d[3] ELSE c2
          st == StripesOf(idx)
      IN Len(st) = 3 /\ st[1].color = c1 /\ st[2].color = c2 /\ st[3].color = c3

\* C6: an item with dominantColors = [] and an averageColor has all three
\* stripes painted in its averageColor.
C6_EmptyDomUsesAverage ==
  StripedRun =>
    \A idx \in 1..Len(tiles) :
      (tiles[idx].dom = <<>> /\ tiles[idx].avg # Missing) =>
        /\ Len(StripesOf(idx)) = 3
        /\ \A m \in 1..3 : StripesOf(idx)[m].color = tiles[idx].avg

\* The item of the example: dominantColors = [], averageColor = (10,20,30).
C6_Witness ==
  /\ StripedRun
  /\ \E idx \in 1..Len(tiles) :
       /\ tiles[idx].dom = <<>> /\ tiles[idx].avg = <<10, 20, 30>>
       /\ Len(StripesOf(idx)) = 3

\* C7: with includeOverlays, show and alpha = 0 the canvas has the same pixels as
\* without overlays: at no point does the overlay branch change the colour.
C7_AlphaZeroIsNoOverlay ==
  (rpc = "done" /\ blob = "jpeg" /\ includeOverlays /\ showColor /\ overlayAlpha = 0) =>
    \A n \in 1..Len(ops) :
      ops[n].part = "overlay" =>
        LET p == Centre(PaintedOnCanvas(ops[n]))
        IN PixelAt(ops, p) = PixelAt(BaseOpsIssued, p)

\* C8: every overlay paint is confined to its tile: under the clip in force when
\* it is issued, no overlay pixel lies outside the rectangle of its tile.
C8_OverlayInsideTile ==
  \A n \in 1..Len(ops) :
    ops[n].part = "overlay" => Within(PaintedOnCanvas(ops[n]), TileCell(ops[n].tile))

\* C9: aspect-fill covers the whole cell, is centred on it, and under the clip in
\* force paints no image pixel outside the cell.
C9_AspectFillInsideCell ==
  \A n \in 1..Len(ops) :
    ops[n].kind = "image" =>
      LET r == ops[n].rect
          cell == TileCell(ops[n].tile)
      IN /\ Within(cell, r)
         /\ (r.l + r.r) * cell.den = (cell.l + cell.r) * r.den
         /\ (r.t + r.b) * cell.den = (cell.t + cell.b) * r.den
         /\ Within(PaintedOnCanvas(ops[n]), cell)

\* What the code computes, as the claim states it: for n >= 1 items and
\* columns >= 1 the logical canvas is columns*tileSize + (columns-1)*spacing by
\* rows*tileSize + (rows-1)*spacing, rows being the least number of rows of that
\* many columns that hold n items; the backing canvas is each of these times
\* pixelRatio, rounded to the nearest integer (a half rounds up).
CanvasSizeFormula ==
  LET n == Len(tiles)
      num == pixelRatio[1]
      den == pixelRatio[2]
  IN /\ \E rows \in 1..n :
          /\ (rows - 1) * columns < n /\ n <= rows * columns
          /\ logical = <<columns * tileSize + (columns - 1) * spacing,
                         rows * tileSize + (rows - 1) * spacing>>
     /\ \A a \in 1..2 :
          /\ 2 * canvas[a] * den - den <= 2 * logical[a] * num
          /\ 2 * logical[a] * num < 2 * canvas[a] * den + den

SizedRun == rpc \in {"tiles", "done"} /\ Len(tiles) >= 1 /\ columns >= 1

ExampleRun == Len(tiles) = 7 /\ columns = 3 /\ tileSize = 100 /\ spacing = 10

\* C10 as stated: the canvas follows the formula, and 7 items in 3 columns of
\* tileSize 100 with spacing 10 give a logical canvas of 330 x 320.
C10_CanvasSize ==
  SizedRun => (CanvasSizeFormula /\ (ExampleRun => logical = <<330, 320>>))

\* C10 as amended: the canvas follows the formula, and the example gives
\* 320 x 320 (3*100 + 2*10 = 320 in both directions).
C10_CanvasSizeAmended ==
  SizedRun => (CanvasSizeFormula /\ (ExampleRun => logical = <<320, 320>>))

\* The example, rendered to the end at pixelRatio 1.5.
C10_Witness ==
  /\ rpc = "done" /\ blob = "jpeg"
  /\ ExampleRun
  /\ pixelRatio = <<3, 2>>
  /\ logical = <<320, 320>> /\ canvas = <<480, 480>>

\* ------------------------------------------------ claims: layout of the cells

\* The cell of item idx (from 1) as the layout rule places it: the row is the
\* one r with r*columns <= i < (r+1)*columns, the column what is left of i.
ClaimedCell(idx) ==
  LET i == idx - 1
      row == CHOOSE r \in 0..i : r * columns <= i /\ i < (r + 1) * columns
      col == i - row * columns
  IN PxRect(col * (tileSize + spacing), row * (tileSize + spacing), tileSize, tileSize)

\* The tiles whose frame has been drawn, and the rectangle of that frame.
Framed == {ops[n].tile : n \in {m \in 1..Len(ops) : ops[m].kind = "frame"}}
FrameOf(idx) == SelectSeq(ops, LAMBDA o : o.kind = "frame" /\ o.tile = idx)[1].rect

Overlap(a, b) == ~IsEmpty(Intersect(a, b))

\* C11: item i is drawn in the cell at row floor(i/columns), column i mod columns,
\* origin (col*(tileSize+spacing), row*(tileSize+spacing)); the cells of two
\* different items never overlap, neighbours in a row or a column are exactly
\* spacing apart, and every cell lies inside the logical canvas.
C11_CellsOnGrid ==
  columns >= 1 =>
    /\ \A n \in 1..Len(ops) :
         /\ ops[n].kind = "frame" => ops[n].rect = ClaimedCell(ops[n].tile)
         /\ ops[n].kind = "image" =>
              /\ Within(ClaimedCell(ops[n].tile), ops[n].rect)
              /\ ops[n].clip.den # 0 => ops[n].clip = ClaimedCell(ops[n].tile)
    /\ \A a \in Framed :
         /\ Within(FrameOf(a), CanvasRect)
         /\ \A b \in Framed :
              /\ a # b => ~Overlap(FrameOf(a), FrameOf(b))
              /\ (b = a + 1 /\ a % columns # 0) =>
                   /\ FrameOf(b).l - FrameOf(a).r = spacing * U
                   /\ FrameOf(b).t = FrameOf(a).t
              /\ b = a + columns =>
                   /\ FrameOf(b).t - FrameOf(a).b = spacing * U
                   /\ FrameOf(b).l = FrameOf(a).l

\* Seven items in two columns, drawn to the end with a gap between the cells.
C11_Witness ==
  /\ rpc = "done" /\ blob = "jpeg"
  /\ Len(tiles) = 7 /\ columns = 2 /\ spacing = 12 /\ tileSize = 512
  /\ Cardinality(Framed) = 7

\* ------------------------------------------------ claims: damaged input

\* C12: exportGrid called with an empty list or with no list resolves to null
\* without making a canvas or painting; exportGridObjectURL then resolves to
\* null as well and creates no object URL.
C12_EmptyListGivesNull ==
  (~tilesGiven \/ tiles = <<>>) =>
    /\ logical = <<0, 0>> /\ canvas = <<0, 0>> /\ ops = <<>>
    /\ blob \in {"none", "null"}
    /\ rpc = "done" => blob = "null"
    /\ url \in {"none", "null"}
    /\ urlsCreated = 0

\* exportGridObjectURL({tiles: []}) has settled.
C12_Witness ==
  /\ tilesGiven /\ tiles = <<>>
  /\ rpc = "done" /\ blob = "null" /\ url = "null"

BadHandle(t) == t.img = NoImage \/ t.img.w = 0 \/ t.img.h = 0

OpsOf(idx, part) == SelectSeq(ops, LAMBDA o : o.tile = idx /\ o.part = part)

\* C13: a list holding an item whose image handle is absent or has zero width or
\* height (all colour data present) still renders to an image: that item gets no
\* image draw, its cell is still framed, its overlay is painted when overlays
\* are on, and every other item is drawn.
C13_BadHandleSkipped ==
  ( /\ rpc = "done" /\ tilesGiven /\ tiles # <<>>
    /\ \E idx \in 1..Len(tiles) : BadHandle(tiles[idx])
    /\ \A idx \in 1..Len(tiles) : tiles[idx].avg # Missing ) =>
    /\ blob = "jpeg"
    /\ \A idx \in 1..Len(tiles) :
         /\ BadHandle(tiles[idx]) <=> OpsOf(idx, "image") = <<>>
         /\ idx \in Framed /\ FrameOf(idx) = ClaimedCell(idx)
         /\ (includeOverlays /\ showColor) => OpsOf(idx, "overlay") # <<>>

\* Grid.jsx line 22: FALLBACK
MidGray == <<128, 128, 128>>

\* C15: an item without averageColor is rendered without error, and every
\* overlay paint that takes the item's averageColor (average mode; dominant mode
\* past the end of the dominant list) uses (128,128,128).
C15_MissingAverageIsMidGray ==
  ( /\ rpc = "done" /\ tilesGiven /\ tiles # <<>>
    /\ \A idx \in 1..Len(tiles) : tiles[idx].img # NoImage ) =>
    /\ blob = "jpeg"
    /\ \A idx \in 1..Len(tiles) :
         (tiles[idx].avg = Missing /\ includeOverlays /\ showColor) =>
           LET t == tiles[idx]
               paints == SelectSeq(OpsOf(idx, "overlay"),
                                   LAMBDA o : o.kind \in {"swatch", "fill", "stripe"})
               nd == IF HasDom(t) THEN Len(t.dom) ELSE 0
           IN /\ paints # <<>>
              /\ \A m \in 1..Len(paints) :
                   (mode = "average" \/ nd = 0 \/ (overlayMode # "dot" /\ m > nd)) =>
                     paints[m].color = MidGray

\* ------------------------------------------------ claims: half and full overlay

SameRect(a, b) == Within(a, b) /\ Within(b, a)

\* The part of the cell of item idx that the overlay style covers: all of it
\* (full) or the half below the middle (half).
OverlayRegion(idx) ==
  LET c == ClaimedCell(idx)
  IN IF overlayMode = "half"
       THEN [l |-> 2 * c.l, t |-> c.t + c.b, r |-> 2 * c.r, b |-> 2 * c.b,
             den |-> 2 * c.den]
       ELSE c

\* C16: the half overlay paints exactly the lower half of the tile and the full
\* overlay the whole tile.  In average mode that is one fill in averageColor at
\* alpha; in dominant mode three stripes of equal height at alpha, the first
\* starting at the top of the region, each next one starting where the one before
\* ends, the last ending at the bottom, painted top to bottom in the first,
\* second and third dominant colour.
C16_HalfAndFullRegions ==
  (rpc = "done" /\ blob = "jpeg" /\ includeOverlays /\ showColor
     /\ overlayMode \in {"half", "full"}) =>
    \A idx \in 1..Len(tiles) :
      LET t == tiles[idx]
          region == OverlayRegion(idx)
          paints == OpsOf(idx, "overlay")
          box(m) == Painted(paints[m])
      IN IF mode = "average"
           THEN /\ Len(paints) = 1
                /\ paints[1].kind = "fill"
                /\ SameRect(box(1), region)
                /\ paints[1].alpha = overlayAlpha
                /\ t.avg # Missing => paints[1].color = t.avg
           ELSE /\ Len(paints) = 3
                /\ \A m \in 1..3 :
                     /\ paints[m].kind = "stripe"
                     /\ paints[m].alpha = overlayAlpha
                     /\ box(m).den = box(1).den
                     /\ box(m).l * region.den = region.l * box(m).den
                     /\ box(m).r * region.den = region.r * box(m).den
                     /\ box(m).b - box(m).t = box(1).b - box(1).t
                     /\ box(m).b > box(m).t
                     /\ (HasDom(t) /\ m <= Len(t.dom)) => paints[m].color = t.dom[m]
                /\ box(1).t * region.den = region.t * box(1).den
                /\ box(2).t = box(1).b
                /\ box(3).t = box(2).b
                /\ box(3).b * region.den = region.b * box(3).den

\* A tile of 256 with three dominant colours under the half overlay, rendered to
\* the end.
C16_Witness ==
  /\ rpc = "done" /\ blob = "jpeg" /\ includeOverlays /\ showColor
  /\ overlayMode = "half" /\ mode = "dominant" /\ tileSize = 256 /\ overlayAlpha = 50
  /\ \E idx \in 1..Len(tiles) :
       /\ tiles[idx].dom = <<Red, Blue, Green>>
       /\ Len(OpsOf(idx, "overlay")) = 3
       /\ OpsOf(idx, "overlay")[3].color = Green

\* ------------------------------------------- the components that show colours
\* What each component puts on screen for one item, or that its render throws.
\* A TypeError comes from reading an index of undefined: item.dom[0] with no
\* dom, rgb[0] with no colour.

\* list[i - 1] in JavaScript: undefined past the end.
At(list, i) == IF i <= Len(list) THEN list[i] ELSE Missing

\* a || b
OrElse(a, b) == IF a = Missing THEN b ELSE a

AnyMissing(colours) == \E i \in 1..Len(colours) : colours[i] = Missing

Thrown == [threw |-> TRUE, shown |-> <<>>]
Rendered(colours) == [threw |-> FALSE, shown |-> colours]

\* colours.map(rgb => ... rgb[0] ...)
MapColours(colours) == IF AnyMissing(colours) THEN Thrown ELSE Rendered(colours)

\* d = dom && dom.length ? dom : [avg, avg, avg]
DomOrAvg(it) == IF HasDom(it) THEN it.dom ELSE <<it.avg, it.avg, it.avg>>

\* seg(d[0]), seg(d[1]||d[0]), seg(d[2]||d[1]||d[0])
GradientChain(d) ==
  <<At(d, 1), OrElse(At(d, 2), At(d, 1)),
    OrElse(At(d, 3), OrElse(At(d, 2), At(d, 1)))>>

\* App.jsx, SortableTile (lines 524-579).  tint and dominantGradient are computed
\* on every render, whatever is shown.
SortableTileView(it, md, show, om) ==
  LET tint == IF md = "average" THEN it.avg ELSE OrElse(At(it.dom, 1), it.avg)
      grad == GradientChain(DomOrAvg(it))
  IN IF md = "dominant" /\ it.dom = Missing THEN Thrown
     ELSE IF AnyMissing(grad) THEN Thrown
     ELSE IF ~show THEN Rendered(<<>>)
     ELSE IF om = "dot" THEN MapColours(IF md = "average" THEN <<it.avg>> ELSE it.dom)
     ELSE IF md = "average" THEN MapColours(<<tint>>)
     ELSE Rendered(grad)

\* App.jsx, DragPreview (lines 584-617): grad reads dom[0][0], dom[1][0] and
\* dom[2][0] on every render.
DragPreviewView(it, md, show, om) ==
  LET tint == IF md = "average" THEN it.avg ELSE OrElse(At(it.dom, 1), it.avg)
      dom == DomOrAvg(it)
      grad == <<At(dom, 1), At(dom, 2), At(dom, 3)>>
  IN IF md = "dominant" /\ it.dom = Missing THEN Thrown
     ELSE IF AnyMissing(grad) THEN Thrown
     ELSE IF ~show THEN Rendered(<<>>)
     ELSE IF om = "dot" THEN MapColours(IF md = "average" THEN <<it.avg>> ELSE it.dom)
     ELSE IF md = "average" THEN MapColours(<<tint>>)
     ELSE Rendered(grad)

\* components/PaletteSidebar.jsx, lines 21-31: (it.dom[s] || it.avg)[0]
PaletteSidebarView(it, md) ==
  IF md = "average" THEN MapColours(<<it.avg>>)
  ELSE IF it.dom = Missing THEN Thrown
  ELSE MapColours([m \in 1..3 |-> OrElse(At(it.dom, m), it.avg)])

\* components/ImageViewerModal.jsx, lines 44-54 and 119-135
ImageViewerView(it, md, show, om) ==
  LET swatches == IF md = "average" THEN <<it.avg>> ELSE DomOrAvg(it)
      tint == IF md = "average" THEN it.avg
              ELSE OrElse(IF it.dom = Missing THEN Missing ELSE At(it.dom, 1), it.avg)
      grad == GradientChain(DomOrAvg(it))
  IN IF AnyMissing(grad) THEN Thrown
     ELSE IF ~show THEN Rendered(<<>>)
     ELSE IF om = "dot" THEN MapColours(swatches)
     ELSE IF md = "average" THEN MapColours(<<tint>>)
     ELSE Rendered(grad)

\* components/Grid.jsx line 29: dom3(dom, avg)
dom3(dom, avg) ==
  LET a == IF dom = Missing THEN <<>> ELSE dom
  IN [m \in 1..3 |-> OrElse(At(a \o <<avg, avg, avg>>, m), avg)]

\* components/Grid.jsx: lines 239-240 normalise the item, TileOverlay (lines
\* 39-110) shows it.
GridTileView(it, md, show, om) ==
  LET avg == OrElse(it.avg, MidGray)
      dom == dom3(it.dom, avg)
  IN IF ~show THEN Rendered(<<>>)
     ELSE IF om = "dot" THEN Rendered(<<IF md = "dominant" THEN dom[1] ELSE avg>>)
     ELSE IF md = "average" THEN Rendered(<<avg>>)
     ELSE Rendered(dom3(dom, avg))

\* exportUtils.js lines 48-74: the overlay colours of exportGrid.
ExportView(it, md, show, om) ==
  IF ~show THEN Rendered(<<>>)
  ELSE IF om = "dot" THEN MapColours(DotColors(it, md))
  ELSE IF md = "average" THEN Rendered(<<rgbaStr(it.avg)>>)
  ELSE Rendered([m \in 1..3 |-> rgbaStr(StripeColor(it, m - 1))])

View(c, it, md, show, om) ==
  CASE c = "exportGrid" -> ExportView(it, md, show, om)
    [] c = "SortableTile" -> SortableTileView(it, md, show, om)
    [] c = "GridTile" -> GridTileView(it, md, show, om)
    [] c = "DragPreview" -> DragPreviewView(it, md, show, om)
    [] c = "PaletteSidebar" -> PaletteSidebarView(it, md)
    [] c = "ImageViewerModal" -> ImageViewerView(it, md, show, om)

Consumers ==
  {"exportGrid", "SortableTile", "GridTile", "DragPreview", "PaletteSidebar",
   "ImageViewerModal"}

\* Items as loadState returns them (App.jsx:31-44): avg and dom as stored.
DisplayAvgs == <<<<10, 20, 30>>, Missing>>
DisplayDoms == <<Missing, <<>>, <<Red>>, <<Red, Blue>>, <<Red, Blue, Green>>>>

DInit ==
  /\ KIdle /\ RIdle /\ AIdle /\ SIdle /\ HIdle /\ IIdle
  /\ WIdle /\ OIdle /\ PIdle /\ TIdle /\ GIdle /\ VIdle
  /\ \E a \in 1..Len(DisplayAvgs), d \in 1..Len(DisplayDoms) :
       dItem = [avg |-> DisplayAvgs[a], dom |-> DisplayDoms[d]]
  /\ dConsumer \in Consumers
  /\ dMode \in {"average", "dominant"}
  /\ dShow \in BOOLEAN
  /\ dOverlay \in {"dot", "half", "full"}
  /\ dpc = "start" /\ dThrew = FALSE /\ dShown = <<>>

\* One render of the component.
DRender ==
  /\ dpc = "start"
  /\ LET v == View(dConsumer, dItem, dMode, dShow, dOverlay)
     IN dThrew' = v.threw /\ dShown' = v.shown
  /\ dpc' = "done"
  /\ UNCHANGED <<dItem, dConsumer, dMode, dShow, dOverlay, otherThanDisplay>>

DNext == DRender

SpecDisplay == DInit /\ [][DNext]_vars

\* ------------------------------------------------ claims: short dominant lists

\* The three stripe colours of an item with an averageColor by the chain rule
\* (stripe 2 from colour 1, stripe 3 from colour 2 or 1, averageColor when there
\* is no dominant colour) and by repeating averageColor.
PaddedByChain(it) == GradientChain(DomOrAvg(it))
PaddedByAverage(it) == dom3(it.dom, it.avg)

\* C14: for an item with an averageColor whose dominantColors is missing or has
\* fewer than three entries, every consumer renders in dominant mode without an
\* error, and where it shows three stripes they are the padded colours.
C14_ShortDomTolerated ==
  ( /\ dpc = "done" /\ dMode = "dominant" /\ dItem.avg # Missing
    /\ (dItem.dom = Missing \/ Len(dItem.dom) < 3) ) =>
    /\ ~dThrew
    /\ ((dShow /\ dOverlay \in {"half", "full"}) \/ dConsumer = "PaletteSidebar") =>
         dShown \in {PaddedByChain(dItem), PaddedByAverage(dItem)}

\* ------------------------------------------- averageColorFromBitmap (lines 5-12)

MaxAvgPixels == 3

\* Pixels <<r, g, b, a>> of the buffer.
AvgPalette ==
  {<<255, 0, 0, 255>>, <<0, 0, 255, 0>>, <<10, 20, 30, 128>>, <<1, 2, 4, 255>>,
   <<255, 255, 255, 255>>}

\* line 10: Math.round(r / count), floored in place of rounded
AvgRoundFloor(sum, count) == sum \div count

\* line 10: Math.round(r / count)
AvgRound(sum, count) == RoundDiv(sum, count)

\* Lines 8-10 on the whole buffer.
RECURSIVE SumPixels(_, _)
SumPixels(buf, n) ==
  IF n = 0 THEN <<0, 0, 0>>
  ELSE LET before == SumPixels(buf, n - 1)
       IN [c \in 1..3 |-> before[c] + buf[n][c]]

averageColor(buf) == [c \in 1..3 |-> AvgRound(SumPixels(buf, Len(buf))[c], Len(buf))]

\* drawBitmap makes the buffer at least 1 x 1, so data holds a pixel.
AInit ==
  /\ KIdle /\ RIdle /\ DIdle /\ SIdle /\ HIdle /\ IIdle
  /\ WIdle /\ OIdle /\ PIdle /\ TIdle /\ GIdle /\ VIdle
  /\ \E n \in 1..MaxAvgPixels : aData \in [1..n -> AvgPalette]
  /\ apc = "loop" /\ ai = 0 /\ aSum = <<0, 0, 0>> /\ aResult = <<>>

\* line 9, one round: r += data[i]; g += data[i+1]; b += data[i+2]
AAccumulate ==
  /\ apc = "loop"
  /\ ai < Len(aData)
  /\ aSum' = [c \in 1..3 |-> aSum[c] + aData[ai + 1][c]]
  /\ ai' = ai + 1
  /\ UNCHANGED <<aData, apc, aResult, otherThanAverage>>

\* lines 10-11, count = data.length / 4
AReturn ==
  /\ apc = "loop"
  /\ ai = Len(aData)
  /\ aResult' = [c \in 1..3 |-> AvgRound(aSum[c], Len(aData))]
  /\ apc' = "done"
  /\ UNCHANGED <<aData, ai, aSum, otherThanAverage>>

ANext == AAccumulate \/ AReturn

SpecAverage == AInit /\ [][ANext]_vars

\* ------------------------------------------------ claims: average colour

\* The sum of channel c over the pixels, whatever their order.
RECURSIVE ChannelTotal(_, _, _)
ChannelTotal(buf, c, idxs) ==
  IF idxs = {} THEN 0
  ELSE LET i == CHOOSE j \in idxs : TRUE
       IN buf[i][c] + ChannelTotal(buf, c, idxs \ {i})

Reorderings(n) == {f \in [1..n -> 1..n] : \A i, j \in 1..n : i # j => f[i] # f[j]}

\* C17: each channel of the result is the mean of that channel over all pixels,
\* rounded to the nearest integer (a half rounds up), whatever the alpha values;
\* it is an integer in 0..255; a buffer of one colour gives that colour; and the
\* result is the same for every reordering of the pixels.
C17_AverageIsRoundedMean ==
  apc = "done" =>
    LET n == Len(aData)
    IN /\ \A c \in 1..3 :
            LET total == ChannelTotal(aData, c, 1..n)
            IN /\ aResult[c] \in 0..255
               /\ 2 * aResult[c] * n - n <= 2 * total
               /\ 2 * total < 2 * aResult[c] * n + n
       /\ (\A i \in 1..n : \A c \in 1..3 : aData[i][c] = aData[1][c]) =>
            aResult = <<aData[1][1], aData[1][2], aData[1][3]>>
       /\ \A f \in Reorderings(n) : averageColor([i \in 1..n |-> aData[f[i]]]) = aResult

\* A buffer whose red mean 5.5 is rounded up to 6, with differing alpha.
C17_Witness ==
  /\ apc = "done"
  /\ aData = <<<<10, 20, 30, 128>>, <<1, 2, 4, 255>>>>
  /\ aResult = <<6, 11, 17>>

\* ------------------------------------------------ drawBitmap (lines 97-105)

MaxSide == 6
MaxBound == 4

\* averageColorFromBitmap(bitmap, max = 96)
DefaultMax == 96

SideChoices == (1..MaxSide) \cup {DefaultMax, 2 * DefaultMax}
BoundChoices == (1..MaxBound) \cup {DefaultMax}

\* lines 98-100: ratio = Math.max(width, height) / max;
\* Math.max(1, Math.round(side / ratio)), with side / ratio = side * max / long
\* taken exactly.
ScaledSide(side, long, max) == Max2(1, RoundDiv(side * max, long))

SInit ==
  /\ KIdle /\ RIdle /\ DIdle /\ AIdle /\ HIdle /\ IIdle
  /\ WIdle /\ OIdle /\ PIdle /\ TIdle /\ GIdle /\ VIdle
  /\ bmpW \in SideChoices
  /\ bmpH \in SideChoices
  /\ bMax \in BoundChoices
  /\ spc = "start" /\ scaledW = 0 /\ scaledH = 0

\* lines 98-104: the canvas of scaledW x scaledH the bitmap is drawn into.
SDraw ==
  /\ spc = "start"
  /\ scaledW' = ScaledSide(bmpW, Max2(bmpW, bmpH), bMax)
  /\ scaledH' = ScaledSide(bmpH, Max2(bmpW, bmpH), bMax)
  /\ spc' = "done"
  /\ UNCHANGED <<bmpW, bmpH, bMax, otherThanSampler>>

SNext == SDraw

SpecSampler == SInit /\ [][SNext]_vars

\* ------------------------------------------------ claims: the sampler's buffer

\* C18: the working buffer is a downscale of the source: its longer side is
\* min(B, longer source side), its shorter side the source's shorter side scaled
\* by the same factor and rounded (at least 1), and a source whose longer side
\* is at most B keeps its size.
C18_BufferIsDownscale ==
  spc = "done" =>
    LET long == Max2(bmpW, bmpH)
        short == Min2(bmpW, bmpH)
        target == Min2(bMax, long)
    IN /\ scaledW >= 1 /\ scaledH >= 1
       /\ Max2(scaledW, scaledH) = target
       /\ Min2(scaledW, scaledH) = Max2(1, RoundDiv(short * target, long))
       /\ long <= bMax => (scaledW = bmpW /\ scaledH = bmpH)

\* ------------------------------------------------ rgbToHex (lines 93-95)
\* A string is the sequence of its characters.

\* The largest value of a channel (the data of getImageData is bytes).
MaxChannel == 255

LowerDigits == <<"0", "1", "2", "3", "4", "5", "6", "7", "8", "9",
                 "a", "b", "c", "d", "e", "f">>
UpperDigits == <<"0", "1", "2", "3", "4", "5", "6", "7", "8", "9",
                 "A", "B", "C", "D", "E", "F">>

\* x.toString(16)
RECURSIVE toString16(_)
toString16(x) ==
  IF x < 16 THEN <<LowerDigits[x + 1]>>
  ELSE toString16(x \div 16) \o <<LowerDigits[(x % 16) + 1]>>

\* .padStart(2, '0'), left out
padStartNone(str) == str

\* .padStart(2, '0')
padStart(str) == IF Len(str) >= 2 THEN str ELSE <<"0">> \o str

\* The upper-case form of each character of a hex string.
UpperOf ==
  [ch \in {LowerDigits[d] : d \in 1..16} \cup {UpperDigits[d] : d \in 1..16} |->
     IF \E d \in 1..16 : LowerDigits[d] = ch
       THEN UpperDigits[CHOOSE d \in 1..16 : LowerDigits[d] = ch]
       ELSE ch]

\* .toUpperCase()
toUpperCase(str) == [i \in 1..Len(str) |-> UpperOf[str[i]]]

\* '#' + [r,g,b].map(x => x.toString(16).padStart(2,'0')).join('').toUpperCase()
rgbToHex(rgb) ==
  <<"#">> \o toUpperCase(padStart(toString16(rgb[1])) \o padStart(toString16(rgb[2]))
                          \o padStart(toString16(rgb[3])))

IsHexDigit(ch) == \E d \in 1..16 : UpperDigits[d] = ch \/ LowerDigits[d] = ch
DigitValue(ch) == (CHOOSE d \in 1..16 : UpperDigits[d] = ch \/ LowerDigits[d] = ch) - 1

\* The way back, as the specification names it: '#RRGGBB' read as three bytes;
\* anything of another form is not a colour.
hexToRGB(str) ==
  IF Len(str) = 7 /\ str[1] = "#" /\ \A i \in 2..7 : IsHexDigit(str[i])
    THEN [c \in 1..3 |-> 16 * DigitValue(str[2 * c]) + DigitValue(str[2 * c + 1])]
    ELSE Missing

\* Every value of one channel, the other two both at one end.
HexTriples ==
  {[o \in 1..3 |-> IF o = c THEN x ELSE e] :
     c \in 1..3, x \in 0..MaxChannel, e \in {0, MaxChannel}}

HInit ==
  /\ KIdle /\ RIdle /\ DIdle /\ AIdle /\ SIdle /\ IIdle
  /\ WIdle /\ OIdle /\ PIdle /\ TIdle /\ GIdle /\ VIdle
  /\ hRgb \in HexTriples
  /\ hpc = "start" /\ hHex = <<>> /\ hBack = <<>>

HToHex ==
  /\ hpc = "start"
  /\ hHex' = rgbToHex(hRgb)
  /\ hpc' = "hex"
  /\ UNCHANGED <<hRgb, hBack, otherThanHex>>

HBack ==
  /\ hpc = "hex"
  /\ hBack' = hexToRGB(hHex)
  /\ hpc' = "done"
  /\ UNCHANGED <<hRgb, hHex, otherThanHex>>

HNext == HToHex \/ HBack

SpecHex == HInit /\ [][HNext]_vars

\* ------------------------------------------------ claims: hex strings

\* C19: for a triple of channels in 0..255 rgbToHex gives '#' and six uppercase
\* hex digits, two per channel; no triple that differs in one channel gives the
\* same string; and reading the string back gives the triple.
C19_HexRoundTrip ==
  /\ hpc \in {"hex", "done"} =>
       /\ Len(hHex) = 7
       /\ hHex[1] = "#"
       /\ \A i \in 2..7 : \E d \in 1..16 : UpperDigits[d] = hHex[i]
  /\ hpc = "hex" =>
       /\ \A c \in 1..3 : \A x \in 0..MaxChannel :
            x # hRgb[c] => rgbToHex([hRgb EXCEPT ![c] = x]) # hHex
  /\ hpc = "done" => hBack = hRgb

\* (255, 9, 255) becomes '#FF09FF' and comes back.
C19_Witness ==
  /\ hpc = "done"
  /\ hRgb = <<255, 9, 255>>
  /\ hHex = <<"#", "F", "F", "0", "9", "F", "F">>
  /\ hBack = <<255, 9, 255>>

\* ---------------------- onFiles (App.jsx:154-187), importFiles (Modal.jsx:87-129)
\* The two importers run the same loop; importFiles closes the bitmap before it
\* rebuilds the image, onFiles after.

MaxFiles == 2

\* What becomes of a file: not an image (skipped); createImageBitmap rejects;
\* the colour analysis throws; bitmapToJpegDataURL rejects; dataURLToImage
\* rejects; or every step succeeds.
FileKinds == {"notImage", "undecodable", "analysisFails", "encodeFails", "imageFails", "ok"}
FileSizes == {1, 2}

\* A file: id is its place in the list handed over.
Files(n) ==
  {f \in [1..n -> [id : 1..n, kind : FileKinds, size : FileSizes]] :
     \A i \in 1..n : f[i].id = i}

\* .sort((a, b) => a.size - b.size): stable, smallest first.
RECURSIVE InsertBySize(_, _)
InsertBySize(sorted, f) ==
  IF sorted = <<>> THEN <<f>>
  ELSE IF sorted[Len(sorted)].size <= f.size THEN Append(sorted, f)
  ELSE Append(InsertBySize(SubSeq(sorted, 1, Len(sorted) - 1), f), sorted[Len(sorted)])

RECURSIVE SortBySize(_, _)
SortBySize(fs, n) ==
  IF n = 0 THEN <<>> ELSE InsertBySize(SortBySize(fs, n - 1), fs[n])

\* The locals of one pass of the loop: which of avg, dom and img are assigned.
NoLocals == [avg |-> FALSE, dom |-> FALSE, img |-> FALSE]

\* { id, img, avg, dom } (line 174); a field is TRUE when it holds a value.
GridItem(id, cur) == [id |-> id, img |-> cur.img, avg |-> cur.avg, dom |-> cur.dom]

\* The grid before the batch: empty, or one item of an earlier import.
Earlier == GridItem(0, [avg |-> TRUE, dom |-> TRUE, img |-> TRUE])

IInit ==
  /\ KIdle /\ RIdle /\ DIdle /\ AIdle /\ SIdle /\ HIdle
  /\ WIdle /\ OIdle /\ PIdle /\ TIdle /\ GIdle /\ VIdle
  /\ iVariant \in {"onFiles", "importFiles"}
  /\ \E n \in 0..MaxFiles : iFiles \in Files(n)
  /\ items \in {<<>>, <<Earlier>>}
  /\ iList = <<>> /\ ipc = "start" /\ iIndex = 0 /\ iOpen = {} /\ iAppended = <<>>
  /\ iCur = NoLocals /\ iFailed = 0 /\ importing = FALSE

IParams == <<iVariant, iFiles>>

\* lines 155-160: nothing to do without files; else setImporting(true) and the
\* sorted list.
IBegin ==
  /\ ipc = "start"
  /\ IF Len(iFiles) = 0
       THEN ipc' = "done" /\ UNCHANGED <<iList, importing>>
       ELSE /\ ipc' = "loop"
            /\ importing' = TRUE
            /\ iList' = SortBySize(iFiles, Len(iFiles))
  /\ UNCHANGED <<IParams, iIndex, iOpen, iAppended, iCur, iFailed, items, otherThanImport>>

\* A loop without the try: the first rejection ends the batch.
ICatchAborts ==
  /\ iFailed' = iFailed + 1
  /\ iIndex' = iIndex
  /\ iCur' = NoLocals
  /\ ipc' = "done"

\* lines 178-181: catch (e) { failed++ }, then the next file.  The bitmap, if one is open, is
\* not closed.
ICatch ==
  /\ iFailed' = iFailed + 1
  /\ iIndex' = iIndex + 1
  /\ iCur' = NoLocals
  /\ ipc' = "loop"

\* line 164: a file that is not an image is passed over.
ISkip ==
  /\ ipc = "loop"
  /\ iIndex < Len(iList)
  /\ iList[iIndex + 1].kind = "notImage"
  /\ iIndex' = iIndex + 1
  /\ UNCHANGED <<IParams, iList, ipc, iOpen, iAppended, iCur, iFailed, importing, items,
                 otherThanImport>>

\* lines 165-170: createImageBitmap settles; with a bitmap the colours are
\* computed and bitmapToJpegDataURL is called.
IDecode ==
  /\ ipc = "loop"
  /\ iIndex < Len(iList)
  /\ LET f == iList[iIndex + 1]
     IN /\ f.kind # "notImage"
        /\ IF f.kind = "undecodable"
             THEN ICatch /\ iOpen' = iOpen
             ELSE /\ iOpen' = iOpen \cup {f.id}
                  /\ IF f.kind = "analysisFails"
                       THEN ICatch
                       ELSE /\ ipc' = "encode"
                            /\ iCur' = [iCur EXCEPT !.avg = TRUE, !.dom = TRUE]
                            /\ UNCHANGED <<iIndex, iFailed>>
  /\ UNCHANGED <<IParams, iList, iAppended, importing, items, otherThanImport>>

\* lines 170-171: bitmapToJpegDataURL settles; importFiles closes the bitmap
\* here (Modal.jsx:107), then dataURLToImage is called.
IEncode ==
  /\ ipc = "encode"
  /\ LET f == iList[iIndex + 1]
     IN IF f.kind = "encodeFails"
          THEN ICatch /\ iOpen' = iOpen
          ELSE /\ ipc' = "image"
               /\ iOpen' = IF iVariant = "importFiles" THEN iOpen \ {f.id} ELSE iOpen
               /\ UNCHANGED <<iIndex, iFailed, iCur>>
  /\ UNCHANGED <<IParams, iList, iAppended, importing, items, otherThanImport>>

\* lines 171-177: dataURLToImage settles; onFiles closes the bitmap here
\* (App.jsx:173); the item is pushed and the loop yields.
IImage ==
  /\ ipc = "image"
  /\ LET f == iList[iIndex + 1]
     IN IF f.kind = "imageFails"
          THEN ICatch /\ UNCHANGED <<iOpen, iAppended>>
          ELSE /\ ipc' = "yield"
               /\ iOpen' = iOpen \ {f.id}
               /\ iCur' = [iCur EXCEPT !.img = TRUE]
               /\ iAppended' = Append(iAppended, GridItem(f.id, iCur'))
               /\ UNCHANGED <<iIndex, iFailed>>
  /\ UNCHANGED <<IParams, iList, importing, items, otherThanImport>>

\* line 177: await new Promise(r => setTimeout(r, 0))
IYield ==
  /\ ipc = "yield"
  /\ iIndex' = iIndex + 1
  /\ iCur' = NoLocals
  /\ ipc' = "loop"
  /\ UNCHANGED <<IParams, iList, iOpen, iAppended, iFailed, importing, items,
                 otherThanImport>>

\* lines 184-186: the new items go behind the grid's (onFiles; importFiles
\* returns them), setImporting(false).
IFinish ==
  /\ ipc = "loop"
  /\ iIndex = Len(iList)
  /\ items' = IF iVariant = "onFiles" THEN items \o iAppended ELSE items
  /\ importing' = FALSE
  /\ ipc' = "done"
  /\ UNCHANGED <<IParams, iList, iIndex, iOpen, iAppended, iCur, iFailed, otherThanImport>>

INext == IBegin \/ ISkip \/ IDecode \/ IEncode \/ IImage \/ IYield \/ IFinish

SpecImport == IInit /\ [][INext]_vars

\* ------------------------------------------------ claims: batch import

\* C20: during a batch import at most one decoded bitmap is open (created and
\* not yet closed) at every moment, also after the analysis, the re-encoding or
\* the image reconstruction of a file has failed and the loop has moved on.
C20_OneBitmapOpen == Cardinality(iOpen) <= 1

\* The files of the batch that are images and pass every step, and those that
\* fail at one.
Imported == {i \in 1..Len(iFiles) : iFiles[i].kind = "ok"}
Rejected ==
  {i \in 1..Len(iFiles) :
     iFiles[i].kind \in {"undecodable", "analysisFails", "encodeFails", "imageFails"}}

Complete(item) == item.img /\ item.avg /\ item.dom

\* What the batch hands to the grid: onFiles appends to items itself,
\* importFiles returns the list to its caller.
Delivered(before, after, returned) ==
  IF iVariant = "onFiles"
    THEN /\ Len(after) >= Len(before)
         /\ SubSeq(after, 1, Len(before)) = before
         /\ returned = SubSeq(after, Len(before) + 1, Len(after))
    ELSE after = before

C22_ExportStripesAsDisplayed ==
  ( /\ dpc = "done" /\ dConsumer = "exportGrid" /\ dMode = "dominant"
    /\ dShow /\ dOverlay \in {"half", "full"}
    /\ dItem.avg # Missing /\ dItem.dom # Missing ) =>
    /\ ~dThrew
    /\ Rendered(dShown) = SortableTileView(dItem, dMode, dShow, dOverlay)
    /\ Rendered(dShown) = GridTileView(dItem, dMode, dShow, dOverlay)

\* ------------------------------------------- service worker (Modal.jsx:215-324)
\* Cache names are strings, one character per entry.

SW_VERSION == <<"v", "4">>
CACHE_PREFIX == <<"g", "r", "i", "d", "t", "o", "n", "e", "-">>
RUNTIME_CACHE == CACHE_PREFIX \o <<"r", "u", "n", "t", "i", "m", "e", "-">> \o SW_VERSION
ASSET_CACHE == CACHE_PREFIX \o <<"a", "s", "s", "e", "t", "s", "-">> \o SW_VERSION

\* n.startsWith(p)
startsWith(n, p) == Len(n) >= Len(p) /\ SubSeq(n, 1, Len(p)) = p

\* Caches a browser profile may hold when the worker is installed: those of
\* the version before, one whose name lacks the hyphen of the prefix, one of
\* another library of the same origin.
OldVersion == <<"v", "3">>
CacheNames ==
  {ASSET_CACHE, RUNTIME_CACHE,
   CACHE_PREFIX \o <<"a", "s", "s", "e", "t", "s", "-">> \o OldVersion,
   CACHE_PREFIX \o <<"r", "u", "n", "t", "i", "m", "e", "-">> \o OldVersion,
   <<"g", "r", "i", "d", "t", "o", "n", "e">>,
   <<"f", "o", "n", "t", "s">>}

\* The activate filter without the prefix test.
StaleAnyPrefix(names) == {n \in names : n \notin {ASSET_CACHE, RUNTIME_CACHE}}

\* line 258: names.filter(n => ![ASSET_CACHE, RUNTIME_CACHE].includes(n)
\* && n.startsWith(CACHE_PREFIX))
Stale(names) ==
  {n \in names : n \notin {ASSET_CACHE, RUNTIME_CACHE} /\ startsWith(n, CACHE_PREFIX)}

\* The requests: method, whether Accept includes text/html (isHTML), whether
\* the path ends in an asset extension (isAsset).
Requests ==
  {[method |-> "POST", html |-> FALSE, asset |-> TRUE],
   [method |-> "GET", html |-> TRUE, asset |-> FALSE],
   [method |-> "GET", html |-> TRUE, asset |-> TRUE],
   [method |-> "GET", html |-> FALSE, asset |-> TRUE],
   [method |-> "GET", html |-> FALSE, asset |-> FALSE]}

NetOutcomes == {"200", "404", "fails"}

\* The branch of the fetch handler that takes the request (lines 273-324).
Branch(req) ==
  IF req.method # "GET" THEN "none"
  ELSE IF req.html THEN "html"
  ELSE IF req.asset THEN "asset"
  ELSE "default"

WInit ==
  /\ KIdle /\ RIdle /\ DIdle /\ AIdle /\ SIdle /\ HIdle
  /\ IIdle /\ OIdle /\ PIdle /\ TIdle /\ GIdle /\ VIdle
  /\ swCaches \in SUBSET CacheNames
  /\ swpc = "start" /\ swNames = {} /\ swDoomed = {}
  /\ fReq \in Requests /\ fCached \in BOOLEAN
  /\ fNet = "fails" /\ fpc = "idle" /\ fAnswer = "none" /\ fPut = {}

\* install, lines 244-251: caches.open(ASSET_CACHE) makes the cache; a failed
\* addAll is swallowed.
SWInstall ==
  /\ swpc = "start"
  /\ swCaches' = swCaches \cup {ASSET_CACHE}
  /\ swpc' = "installed"
  /\ UNCHANGED <<swNames, swDoomed, fReq, fCached, fNet, fpc, fAnswer, fPut, otherThanWorker>>

\* activate, lines 253-259: caches.keys(), then one caches.delete per stale name,
\* all started together.
SWActivate ==
  /\ swpc = "installed"
  /\ swNames' = swCaches
  /\ swDoomed' = Stale(swCaches)
  /\ swpc' = "deleting"
  /\ UNCHANGED <<swCaches, fReq, fCached, fNet, fpc, fAnswer, fPut, otherThanWorker>>

\* One caches.delete(n) settles.
SWDelete ==
  /\ swpc = "deleting"
  /\ \E n \in swDoomed :
       /\ swCaches' = swCaches \ {n}
       /\ swDoomed' = swDoomed \ {n}
  /\ UNCHANGED <<swpc, swNames, fReq, fCached, fNet, fpc, fAnswer, fPut, otherThanWorker>>

\* lines 256-264: Promise.all settles, clients.claim(), the handler completes.
SWClaim ==
  /\ swpc = "deleting"
  /\ swDoomed = {}
  /\ swpc' = "active"
  /\ UNCHANGED <<swCaches, swNames, swDoomed, fReq, fCached, fNet, fpc, fAnswer, fPut,
                 otherThanWorker>>

\* fetch, lines 273-324, up to the point where fetch(request) is pending.  In
\* the asset branch cache.match has settled and "cached || networkFetch ||
\* new Response(null, { status: 504 })" is returned: the cached response, or
\* else the promise networkFetch (a promise is never falsy).
SWFetch ==
  /\ swpc = "active"
  /\ fpc \in {"idle", "done"}
  /\ fNet' \in NetOutcomes
  /\ CASE Branch(fReq) = "none" -> fAnswer' = "unhandled" /\ fpc' = "done"
       [] Branch(fReq) = "asset" ->
            /\ fAnswer' = IF fCached THEN "cached" ELSE "none"
            /\ fpc' = "network"
       [] OTHER -> fAnswer' = "none" /\ fpc' = "network"
  /\ UNCHANGED <<swCaches, swpc, swNames, swDoomed, fReq, fCached, fPut, otherThanWorker>>

\* fetch(request) settles.  html (lines 280-294): the fresh response is put
\* into the runtime cache and returned, on failure the cached page or the
\* offline page.  asset (lines 298-311): a response of status 200 is put into
\* the asset cache, .catch(() => null) turns a failure into null, and that is
\* what networkFetch hands to respondWith when nothing was cached.  default
\* (lines 315-322): the response, on failure the cached one or a 504.
SWSettle ==
  /\ fpc = "network"
  /\ fpc' = "done"
  /\ CASE Branch(fReq) = "html" ->
            /\ fAnswer' = IF fNet # "fails" THEN "network"
                          ELSE IF fCached THEN "cached" ELSE "offline"
            /\ fCached' = (fCached \/ fNet # "fails")
            /\ fPut' = fPut
       [] Branch(fReq) = "asset" ->
            /\ fAnswer' = IF fAnswer # "none" THEN fAnswer
                          ELSE IF fNet = "fails" THEN "null" ELSE "network"
            /\ fCached' = (fCached \/ fNet = "200")
            /\ fPut' = IF fNet = "200" THEN fPut \cup {fNet} ELSE fPut
       [] OTHER ->
            /\ fAnswer' = IF fNet # "fails" THEN "network"
                          ELSE IF fCached THEN "cached" ELSE "504"
            /\ UNCHANGED <<fCached, fPut>>
  /\ UNCHANGED <<swCaches, swpc, swNames, swDoomed, fReq, fNet, otherThanWorker>>

WNext == SWInstall \/ SWActivate \/ SWDelete \/ SWClaim \/ SWFetch \/ SWSettle

SpecWorker == WInit /\ [][WNext]_vars

\* ------------------------------------------------ claims: service worker

\* C23: a GET request for a static asset is always answered with a Response:
\* the cached copy when there is one, else the network response, else a 504
\* when the network fails and nothing is cached; never null; and only
\* responses of status 200 are put into the asset cache.
C23_AssetAlwaysAnswered ==
  /\ fPut \subseteq {"200"}
  /\ (fpc = "done" /\ Branch(fReq) = "asset") =>
       /\ fAnswer \in {"cached", "network", "504"}
       /\ (fAnswer # "cached" /\ fNet = "fails") => fAnswer = "504"
       /\ (fAnswer = "network") => fNet # "fails"

\* C24: when activate has completed, the only caches with the prefix are the
\* asset and runtime cache of this version, and every cache without the
\* prefix that was there is still there.
C24_OnlyCurrentCachesRemain ==
  swpc = "active" =>
    /\ \A n \in swCaches : startsWith(n, CACHE_PREFIX) => n \in {ASSET_CACHE, RUNTIME_CACHE}
    /\ \A n \in swNames : ~startsWith(n, CACHE_PREFIX) => n \in swCaches

\* Both caches of v3 were there with 'gridtone' and 'fonts'; after activate
\* the v3 caches are gone and the other two remain.
C24_Witness ==
  /\ swpc = "active"
  /\ swNames = CacheNames \ {RUNTIME_CACHE}
  /\ swCaches = {ASSET_CACHE, <<"g", "r", "i", "d", "t", "o", "n", "e">>,
                 <<"f", "o", "n", "t", "s">>}

\* ------------------------------- onFiles called again before it has returned
\* Nothing disables the file input or the drop target while importing is true
\* (App.jsx:318-328), so a second call can start while the first is at an
\* await.  Each call has its own files, appended and failed; importing and
\* items are the component's state.  One step handles one file of one call,
\* from the top of the try block to the yield or the catch.

Calls == {"first", "second"}

\* A file by what becomes of it: passed over, rejected at some step, imported.
Outcomes == {"notImage", "fails", "ok"}

OInit ==
  /\ KIdle /\ RIdle /\ DIdle /\ AIdle /\ SIdle /\ HIdle
  /\ IIdle /\ WIdle /\ PIdle /\ TIdle /\ GIdle /\ VIdle
  /\ oVariant \in {"onFiles", "importFiles"}
  /\ oFiles \in [Calls -> UNION {[1..n -> Outcomes] : n \in 0..MaxFiles}]
  /\ opc = [c \in Calls |-> "start"]
  /\ oIndex = [c \in Calls |-> 0]
  /\ oAppended = [c \in Calls |-> <<>>]
  /\ oFailed = [c \in Calls |-> 0]
  /\ oImporting = FALSE /\ oItems = <<>>

\* lines 155-156: return without files, else setImporting(true).
OBegin(c) ==
  /\ opc[c] = "start"
  /\ IF Len(oFiles[c]) = 0
       THEN opc' = [opc EXCEPT ![c] = "done"] /\ oImporting' = oImporting
       ELSE opc' = [opc EXCEPT ![c] = "loop"] /\ oImporting' = TRUE
  /\ UNCHANGED <<oVariant, oFiles, oIndex, oAppended, oFailed, oItems, otherThanOverlap>>

\* lines 162-182: one file.
OFile(c) ==
  /\ opc[c] = "loop"
  /\ oIndex[c] < Len(oFiles[c])
  /\ LET f == oFiles[c][oIndex[c] + 1]
     IN /\ oAppended' = IF f = "ok"
                          THEN [oAppended EXCEPT ![c] = Append(@, <<c, oIndex[c] + 1>>)]
                          ELSE oAppended
        /\ oFailed' = IF f = "fails" THEN [oFailed EXCEPT ![c] = @ + 1] ELSE oFailed
  /\ oIndex' = [oIndex EXCEPT ![c] = @ + 1]
  /\ UNCHANGED <<oVariant, oFiles, opc, oImporting, oItems, otherThanOverlap>>

\* lines 184-186 (Modal.jsx:123-125): the items are appended or returned,
\* setImporting(false).
OFinish(c) ==
  /\ opc[c] = "loop"
  /\ oIndex[c] = Len(oFiles[c])
  /\ oItems' = IF oVariant = "onFiles" THEN oItems \o oAppended[c] ELSE oItems
  /\ oImporting' = FALSE
  /\ opc' = [opc EXCEPT ![c] = "done"]
  /\ UNCHANGED <<oVariant, oFiles, oIndex, oAppended, oFailed, otherThanOverlap>>

ONext == \E c \in Calls : OBegin(c) \/ OFile(c) \/ OFinish(c)

SpecOverlap == OInit /\ [][ONext]_vars

\* ------------------------------------------------ claims: importing indicator

\* C25: importing is true at every moment at which a batch is being processed,
\* also when two batches overlap, and is false when none is.
C25_IndicatorCoversBatches ==
  /\ (\E c \in Calls : opc[c] = "loop") => oImporting
  /\ (\A c \in Calls : opc[c] = "done") => ~oImporting

\* ------------------------------ openPreview, closePreview (App.jsx:209-235)
\* Both callbacks are rebuilt whenever previewUrl changes, so a click reads the
\* previewUrl of the moment of the click; what follows the await in openPreview
\* runs when exportGridObjectURL has settled.

MaxClicks == 4

\* useState(null)
NoUrl == 0

PInit ==
  /\ KIdle /\ RIdle /\ DIdle /\ AIdle /\ SIdle /\ HIdle
  /\ IIdle /\ WIdle /\ OIdle /\ TIdle /\ GIdle /\ VIdle
  /\ pvItems \in {0, 1}
  /\ previewUrl = NoUrl /\ previewOpen = FALSE /\ pvPending = 0
  /\ pvLive = {} /\ pvMade = 0 /\ pvClicks = 0 /\ pvClosed = FALSE

\* lines 210-213: Preview Export (line 334) or Refresh Preview (line 502) is
\* clicked; the call runs up to its await.
POpenPreview ==
  /\ pvClicks < MaxClicks
  /\ pvClicks' = pvClicks + 1
  /\ pvClosed' = FALSE
  /\ IF pvItems = 0
       THEN UNCHANGED <<previewUrl, pvLive, pvPending>>
       ELSE /\ IF previewUrl # NoUrl
                 THEN pvLive' = pvLive \ {previewUrl} /\ previewUrl' = NoUrl
                 ELSE UNCHANGED <<previewUrl, pvLive>>
            /\ pvPending' = pvPending + 1
  /\ UNCHANGED <<pvItems, previewOpen, pvMade, otherThanPreview>>

\* lines 213-226 with exportUtils.js:82-86: exportGridObjectURL settles with
\* a new object URL, which is stored and the modal opened, or with null or a
\* rejection, after which nothing is done.
PSettle ==
  /\ pvPending > 0
  /\ pvPending' = pvPending - 1
  /\ \/ /\ pvMade' = pvMade + 1
        /\ pvLive' = pvLive \cup {pvMade + 1}
        /\ previewUrl' = pvMade + 1
        /\ previewOpen' = TRUE
     \/ UNCHANGED <<pvMade, pvLive, previewUrl, previewOpen>>
  /\ UNCHANGED <<pvItems, pvClicks, pvClosed, otherThanPreview>>

\* lines 229-235: the modal, which is on screen, is closed (button, Escape or
\* backdrop).
PClosePreview ==
  /\ previewOpen
  /\ previewOpen' = FALSE
  /\ pvClosed' = TRUE
  /\ IF previewUrl # NoUrl
       THEN pvLive' = pvLive \ {previewUrl} /\ previewUrl' = NoUrl
       ELSE UNCHANGED <<previewUrl, pvLive>>
  /\ UNCHANGED <<pvItems, pvPending, pvMade, pvClicks, otherThanPreview>>

PNext == POpenPreview \/ PSettle \/ PClosePreview

SpecPreview == PInit /\ [][PNext]_vars

\* ------------------------------------------------ claims: export preview

\* C26: under every interleaving of preview clicks and closes at most one
\* preview object URL is un-revoked, an un-revoked URL is the one previewUrl
\* holds (so the next openPreview or closePreview revokes it), and after
\* closePreview the modal is closed with no preview URL until a preview is
\* asked for again.
C26_OnePreviewUrl ==
  /\ Cardinality(pvLive) <= 1
  /\ \A u \in pvLive : previewUrl = u
  /\ pvClosed => (~previewOpen /\ previewUrl = NoUrl)

\* ------------------------------ loadTiles, saveTiles (unnamed/part_004:33-95)
\* A blob is "jpeg" or, where a field holds none, "none"; the src of an image
\* is known by its scheme, "data:" or "blob:".

MaxStored == 2
TileIds == {1, 2, 3}

\* The record an import left in the store for an id.
Stored(id) == [id |-> id, avg |-> <<id, id, id>>, dom |-> <<Red>>, blob |-> "jpeg"]

\* The order record: ids without repetition.
Orders ==
  {o \in UNION {[1..n -> TileIds] : n \in 0..MaxStored} :
     \A i, j \in 1..Len(o) : i # j => o[i] # o[j]}

TInit ==
  /\ KIdle /\ RIdle /\ DIdle /\ AIdle /\ SIdle /\ HIdle
  /\ IIdle /\ WIdle /\ OIdle /\ PIdle /\ GIdle /\ VIdle
  /\ \E ids \in SUBSET TileIds : dbTiles = {Stored(id) : id \in ids}
  /\ dbOrder \in Orders
  /\ tpc = "start" /\ allTiles = {} /\ tLoaded = <<>> /\ tReloaded = <<>>

\* lines 132-140: blobToImage gives an image whose src is the object URL of
\* the blob.
blobToImage(b) == [src |-> "blob:"]

\* lines 41-55: the records of the ids of order, in that order; an id
\* without a record is passed over.  The items have no blob field.
RECURSIVE LoadFrom(_, _)
LoadFrom(order, records) ==
  IF order = <<>> THEN <<>>
  ELSE LET recs == {r \in records : r.id = Head(order)}
           rest == LoadFrom(Tail(order), records)
       IN IF recs = {} THEN rest
          ELSE LET rec == CHOOSE r \in recs : TRUE
               IN <<[id |-> rec.id, img |-> blobToImage(rec.blob), avg |-> rec.avg,
                     dom |-> rec.dom, blob |-> "none"]>> \o rest

\* lines 124-131: null unless src is a data: URL.
dataURLFallbackToBlob(src) == IF src = "data:" THEN "jpeg" ELSE "none"

\* lines 80-86: one record per item that has a blob or a data: URL.
RecordsOf(list) ==
  {[id |-> list[i].id, avg |-> list[i].avg, dom |-> list[i].dom,
    blob |-> IF list[i].blob # "none" THEN list[i].blob
             ELSE dataURLFallbackToBlob(list[i].img.src)] :
     i \in {j \in 1..Len(list) :
              list[j].blob # "none" \/ dataURLFallbackToBlob(list[j].img.src) # "none"}}

\* loadTiles, lines 33-60.
TLoad ==
  /\ tpc = "start"
  /\ allTiles' = dbTiles
  /\ tLoaded' = LoadFrom(dbOrder, dbTiles)
  /\ tpc' = "loaded"
  /\ UNCHANGED <<dbTiles, dbOrder, tReloaded, otherThanStore>>

\* saveTiles(L) for the list just loaded, lines 66-95: the store is cleared,
\* order is items.map(t => t.id), then the records are put.
TSave ==
  /\ tpc = "loaded"
  /\ dbOrder' = [i \in 1..Len(tLoaded) |-> tLoaded[i].id]
  /\ dbTiles' = RecordsOf(tLoaded)
  /\ tpc' = "saved"
  /\ UNCHANGED <<allTiles, tLoaded, tReloaded, otherThanStore>>

\* loadTiles again.
TReload ==
  /\ tpc = "saved"
  /\ tReloaded' = LoadFrom(dbOrder, dbTiles)
  /\ tpc' = "done"
  /\ UNCHANGED <<dbTiles, dbOrder, allTiles, tLoaded, otherThanStore>>

TNext == TLoad \/ TSave \/ TReload

SpecStore == TInit /\ [][TNext]_vars

\* ------------------------------------------------ claims: persistence

\* id, avg and dom of the items of a list, in order.
Meta(list) == [i \in 1..Len(list) |-> <<list[i].id, list[i].avg, list[i].dom>>]

\* C27: loadTiles after saveTiles(L), L being what loadTiles returned, gives
\* the same ids in the same order with the same avg and dom; the tiles that
\* were loaded are still in the store; every id of the saved order has a
\* record.
C27_LoadSaveLoadStable ==
  /\ tpc = "done" => Meta(tReloaded) = Meta(tLoaded)
  /\ tpc \in {"saved", "done"} =>
       /\ \A i \in 1..Len(tLoaded) : \E r \in dbTiles : r.id = tLoaded[i].id
       /\ \A i \in 1..Len(dbOrder) : \E r \in dbTiles : r.id = dbOrder[i]

\* ------------------ the grid order: import, drag, remove, sample, clear
\* An item is its id; ids come from crypto.randomUUID(), here the next number.

MaxIds == 4

\* loadSampleGrid builds 9 tiles (App.jsx:272); fewer here.
SampleTiles == 2

\* No id: over is null, no drag in progress.
NoId == 0

GInit ==
  /\ KIdle /\ RIdle /\ DIdle /\ AIdle /\ SIdle /\ HIdle
  /\ IIdle /\ WIdle /\ OIdle /\ PIdle /\ TIdle /\ VIdle
  /\ gVariant \in {"App", "Grid"}
  /\ gItems = <<>> /\ gMade = 0 /\ gActive = NoId /\ gSample = FALSE
  /\ gOp = "start" /\ gArg = NoId

\* items.findIndex(i => i.id === id): from 0, -1 when there is none.
findIndex(list, id) ==
  IF \E i \in 1..Len(list) : list[i] = id
    THEN (CHOOSE i \in 1..Len(list) : list[i] = id /\ \A j \in 1..(i - 1) : list[j] # id) - 1
    ELSE -1

\* The start of array.splice(start, ...) on an array of n entries.
SpliceStart(start, n) == IF start < 0 THEN Max2(n + start, 0) ELSE Min2(start, n)

\* arrayMove of @dnd-kit/sortable:
\*   newArray = array.slice();
\*   newArray.splice(to < 0 ? newArray.length + to : to, 0, newArray.splice(from, 1)[0])
\* The first argument is evaluated before the inner splice takes the entry out.
arrayMove(array, from, to) ==
  LET n == Len(array)
      at == IF to < 0 THEN n + to ELSE to
      out == SpliceStart(from, n)
      taken == IF out < n THEN <<array[out + 1]>> ELSE <<NoId>>
      rest == IF out < n THEN SubSeq(array, 1, out) \o SubSeq(array, out + 2, n) ELSE array
      into == SpliceStart(at, Len(rest))
  IN SubSeq(rest, 1, into) \o taken \o SubSeq(rest, into + 1, Len(rest))

\* setItems(prev => prev.concat(appended)) with one new item (App.jsx:174, 184).
GImport ==
  /\ gMade < MaxIds
  /\ gMade' = gMade + 1
  /\ gItems' = Append(gItems, gMade + 1)
  /\ gOp' = "import" /\ gArg' = NoId
  /\ UNCHANGED <<gVariant, gActive, gSample, otherThanOrder>>

\* handleDragStart (App.jsx:195): a tile of the grid is picked up.
GDragStart ==
  /\ gActive = NoId
  /\ \E i \in 1..Len(gItems) : gActive' = gItems[i]
  /\ gOp' = "dragStart" /\ gArg' = NoId
  /\ UNCHANGED <<gVariant, gItems, gMade, gSample, otherThanOrder>>

\* handleDragCancel (App.jsx:196)
GDragCancel ==
  /\ gActive # NoId
  /\ gActive' = NoId
  /\ gOp' = "dragCancel" /\ gArg' = NoId
  /\ UNCHANGED <<gVariant, gItems, gMade, gSample, otherThanOrder>>

\* handleDragEnd (App.jsx:197-204; components/Grid.jsx:190-198, which returns
\* when an index is negative): over is a tile now in the grid, or null.
GDragEnd ==
  /\ gActive # NoId
  /\ \E over \in {gItems[i] : i \in 1..Len(gItems)} \cup {NoId} :
       /\ gArg' = over
       /\ IF over = NoId \/ gActive = over
            THEN gItems' = gItems
            ELSE LET oldIndex == findIndex(gItems, gActive)
                     newIndex == findIndex(gItems, over)
                 IN IF gVariant = "Grid" /\ (oldIndex < 0 \/ newIndex < 0)
                      THEN gItems' = gItems
                      ELSE gItems' = arrayMove(gItems, oldIndex, newIndex)
  /\ gActive' = NoId
  /\ gOp' = "dragEnd"
  /\ UNCHANGED <<gVariant, gMade, gSample, otherThanOrder>>

\* remove(id) (App.jsx:388; components/Grid.jsx:205): the × of a tile.
GRemove ==
  /\ gActive = NoId
  /\ \E i \in 1..Len(gItems) :
       /\ gArg' = gItems[i]
       /\ gItems' = SelectSeq(gItems, LAMBDA x : x # gItems[i])
  /\ gOp' = "remove"
  /\ UNCHANGED <<gVariant, gMade, gActive, gSample, otherThanOrder>>

\* loadSampleGrid, lines 265-271: confirmed, the tiles are being made.
GSampleClick ==
  /\ gActive = NoId
  /\ ~gSample
  /\ gMade + SampleTiles <= MaxIds
  /\ gSample' = TRUE
  /\ gOp' = "sampleClick" /\ gArg' = NoId
  /\ UNCHANGED <<gVariant, gItems, gMade, gActive, otherThanOrder>>

\* loadSampleGrid, lines 272-277: the last tile is made, setItems(tiles).
GSampleDone ==
  /\ gSample
  /\ gSample' = FALSE
  /\ gItems' = [i \in 1..SampleTiles |-> gMade + i]
  /\ gMade' = gMade + SampleTiles
  /\ gOp' = "sample" /\ gArg' = NoId
  /\ UNCHANGED <<gVariant, gActive, otherThanOrder>>

\* clearGrid, lines 283-287, confirmed.
GClear ==
  /\ gActive = NoId
  /\ Len(gItems) > 0
  /\ gItems' = <<>>
  /\ gOp' = "clear" /\ gArg' = NoId
  /\ UNCHANGED <<gVariant, gMade, gActive, gSample, otherThanOrder>>

GNext ==
  \/ GImport \/ GDragStart \/ GDragCancel \/ GDragEnd \/ GRemove
  \/ GSampleClick \/ GSampleDone \/ GClear

SpecOrder == GInit /\ [][GNext]_vars

\* ------------------------------------------------ claims: grid order

IdsOf(list) == {list[i] : i \in 1..Len(list)}
NoDuplicates(list) == \A i, j \in 1..Len(list) : i # j => list[i] # list[j]
Without(list, id) == SelectSeq(list, LAMBDA x : x # id)

\* after is before with the item id moved to the place the item target had.
MovedTo(before, after, id, target) ==
  /\ Len(after) = Len(before)
  /\ Without(after, id) = Without(before, id)
  /\ \A i \in 1..Len(before) : before[i] = target => after[i] = id

\* C28: the grid never holds two items of one id; a drag end moves the dragged
\* item to the place of the item it was dropped on and changes nothing else;
\* a drop outside the items, on the item itself, or with an active or over id
\* that is not in the list leaves the order as it was; remove(id) deletes the
\* item of that id and keeps the order of the rest.
C28_OrderOperations ==
  [][/\ NoDuplicates(gItems')
     /\ (gActive # NoId /\ gOp' = "dragEnd") =>
          IF \/ gArg' = NoId \/ gArg' = gActive
             \/ gActive \notin IdsOf(gItems) \/ gArg' \notin IdsOf(gItems)
            THEN gItems' = gItems
            ELSE MovedTo(gItems, gItems', gActive, gArg')
     /\ (gActive = NoId /\ gOp' = "remove") =>
          /\ gItems' = Without(gItems, gArg')
          /\ Len(gItems') = Len(gItems) - 1]_vars

\* ------------- overlay controls (constants.js, unnamed/part_000, Grid.jsx)
\* A JavaScript value is its type and its decimal writing, so that the number
\* 0 and the string '0' differ.

Num(digits) == [type |-> "number", repr |-> digits]
Str(digits) == [type |-> "string", repr |-> digits]

\* constants.js:7-11
OVERLAY_MODES == [DOT |-> Num("0"), HALF |-> Num("1"), FULL |-> Num("2")]

\* a === b
StrictEquals(a, b) == a.type = b.type /\ a.repr = b.repr

\* <option value={v}>: e.target.value of a select is the value attribute of
\* the option, a string.
TargetValue(v) == Str(v.repr)

\* parseInt(s, 10) of a string of digits
parseInt(s) == Num(s.repr)

\* components/Grid.jsx, TileOverlay (lines 39-110): null without show, the dot
\* for DOT, else a block of 50% for HALF and of 100% for anything else.
TileOverlay(show, om) ==
  IF ~show THEN "nothing"
  ELSE IF StrictEquals(om, OVERLAY_MODES.DOT) THEN "dot"
  ELSE IF StrictEquals(om, OVERLAY_MODES.HALF) THEN "half"
  ELSE "full"

Styles == {"DOT", "HALF", "FULL"}
AlphaStops == {"0", "1", "2", "3", "4"}

\* useState(true), useState('average'), useState(OVERLAY_MODES.DOT),
\* useState(2)
VInit ==
  /\ KIdle /\ RIdle /\ DIdle /\ AIdle /\ SIdle /\ HIdle
  /\ IIdle /\ WIdle /\ OIdle /\ PIdle /\ TIdle /\ GIdle
  /\ tbOverlayMode = OVERLAY_MODES.DOT
  /\ tbShow = TRUE
  /\ tbMode = "average"
  /\ tbAlphaIdx = Num("2")
  /\ tbSelect = "start" /\ tbPicked = "none"
  /\ tbRendered = TileOverlay(tbShow, tbOverlayMode)

\* part_000:37 and ImageViewerModal.jsx:77: setShowColor(e.target.checked)
VToggleColor ==
  /\ tbShow' = ~tbShow
  /\ tbSelect' \in {"toolbar", "viewer"}
  /\ tbRendered' = TileOverlay(tbShow', tbOverlayMode)
  /\ UNCHANGED <<tbOverlayMode, tbMode, tbAlphaIdx, tbPicked, otherThanToolbar>>

\* part_000:42 and ImageViewerModal.jsx:81: setMode(e.target.value)
VSetMode ==
  /\ tbMode' \in {"average", "dominant"} \ {tbMode}
  /\ tbSelect' \in {"toolbar", "viewer"}
  /\ tbRendered' = TileOverlay(tbShow, tbOverlayMode)
  /\ UNCHANGED <<tbOverlayMode, tbShow, tbAlphaIdx, tbPicked, otherThanToolbar>>

\* part_000:67: setOverlayAlphaIdx(parseInt(e.target.value, 10))
VSetAlpha ==
  /\ \E a \in AlphaStops : tbAlphaIdx' = parseInt(TargetValue(Num(a)))
  /\ tbAlphaIdx' # tbAlphaIdx
  /\ tbSelect' = "toolbar"
  /\ tbRendered' = TileOverlay(tbShow, tbOverlayMode)
  /\ UNCHANGED <<tbOverlayMode, tbShow, tbMode, tbPicked, otherThanToolbar>>

\* part_000:47-56 and ImageViewerModal.jsx:86-90 (there disabled without
\* showColor): setOverlayMode(e.target.value), and the grid is rendered again.
VPickOverlay ==
  /\ \E sel \in {"toolbar", "viewer"}, s \in Styles :
       /\ sel = "viewer" => tbShow
       /\ tbSelect' = sel
       /\ tbPicked' = s
       /\ tbOverlayMode' = TargetValue(OVERLAY_MODES[s])
  /\ tbRendered' = TileOverlay(tbShow, tbOverlayMode')
  /\ UNCHANGED <<tbShow, tbMode, tbAlphaIdx, otherThanToolbar>>

VNext == VToggleColor \/ VSetMode \/ VSetAlpha \/ VPickOverlay

SpecToolbar == VInit /\ [][VNext]_vars

\* ------------------------------------------------ claims: overlay style

StyleOf(s) == CASE s = "DOT" -> "dot" [] s = "HALF" -> "half" [] s = "FULL" -> "full"

\* C29: after a style is picked in the toolbar or viewer select, the stored
\* overlayMode is strictly equal to the OVERLAY_MODES constant of that style
\* and, with the colour map on, every grid tile shows the overlay of that style.
C29_PickedStyleIsRendered ==
  tbPicked # "none" =>
    /\ StrictEquals(tbOverlayMode, OVERLAY_MODES[tbPicked])
    /\ tbShow => tbRendered = StyleOf(tbPicked)

\* ------------------------------------------------ claims: k-means rounds

\* The lowest index among the centres at minimum squared distance from p.
LowestAtMinimum(cs, p) ==
  CHOOSE j \in 1..Len(cs) :
    /\ \A i \in 1..Len(cs) : Dist2(p, cs[j]) <= Dist2(p, cs[i])
    /\ \A i \in 1..(j - 1) : Dist2(p, cs[i]) > Dist2(p, cs[j])

\* The points of a round that belong to centre j by that rule.
AssignedTo(cs, ps, j) == {n \in 1..Len(ps) : LowestAtMinimum(cs, ps[n]) = j}

\* The whole function on a pixel buffer and its parameters.
RECURSIVE Lloyd(_, _, _, _)
Lloyd(cs, ps, kk, n) ==
  IF n = 0 THEN cs ELSE Lloyd(UpdateCenters(cs, RoundSums(cs, ps, kk)), ps, kk, n - 1)

DominantColors(buf, kk, cap, n) ==
  LET ps == Subsample(buf, Stride(Len(buf), cap))
  IN IF ps = <<>> THEN <<>>
     ELSE LET cs == Lloyd(SeedCenters(ps, kk), ps, kk, n)
              rk == Rank(cs, FinalCounts(cs, ps, kk), kk)
          IN [m \in 1..Len(rk) |-> cs[rk[m][1]]]

\* The same function on the buffers of up to MaxRoundPixels pixels.
MaxRoundPixels == 4

KRoundsInit == KInit /\ Len(data) <= MaxRoundPixels

SpecRounds == KRoundsInit /\ [][KNext]_vars

\* C30: in every round a point goes to the lowest-indexed centre among those
\* at minimum squared distance; a centre that gets no point keeps its value
\* and no centre is added or removed; the returned list depends on the pixel
\* buffer and the parameters only.
C30_RoundsAreDeterministic ==
  [][/\ (kpc = "iterating" /\ iter' = iter + 1) =>
          /\ Len(centers') = Len(centers)
          /\ \A j \in 1..Len(centers) :
               /\ sums'[j][4] = Cardinality(AssignedTo(centers, pts, j))
               /\ AssignedTo(centers, pts, j) = {} => centers'[j] = centers[j]
     /\ (kpc = "counted" /\ kpc' = "done") =>
          result' = DominantColors(data, k, samples, iters)]_vars

\* Two equal seeds: both red points go to the first centre, the second gets
\* none and is still red after the round.
C30_Witness ==
  /\ kpc = "iterating" /\ iter = 1 /\ k = 3
  /\ pts = <<Red, Red, Blue>>
  /\ sums[1][4] = 2 /\ sums[2][4] = 0
  /\ centers[2] = Red

====
